---- MODULE Spec2Model ----
(***************************************************************************)
(* Agent relay subsystem of svelte-grab: the relay broker                  *)
(* (src/relay/server.ts), the reference provider                           *)
(* (src/relay/providers/claude-code.ts) and the browser-side AgentClient   *)
(* (src/lib/core/context-menu-actions.ts).                                 *)
(*                                                                         *)
(* A JavaScript string is modelled as a sequence of tokens, so that        *)
(* template literals and Array.join are concatenations (\o) and two        *)
(* strings are equal exactly when their token sequences are.               *)
(***************************************************************************)
EXTENDS Integers, Sequences, FiniteSets, TLC

\* ------------------------------------------------------------------ bounds
\* SpecRelay and SpecConnections: frames processed, invocations started,
\* connections
MaxMsgs == 2
MaxInv == 2
MaxConns == 2
\* SpecSession: frames processed and invocations started on one session
MaxSessionMsgs == 3
MaxSessionInv == 3
MaxInFlight == 1
\* SpecProvider: invocations started
MaxProviderInv == 2
\* SpecProviderLive: invocations started
MaxLiveInv == 1
\* SpecClient: sockets constructed, timer ids, connect() calls
MaxSockets == 3
MaxTimers == 2
MaxConnects == 2
\* SpecClientRequests: submissions sent, handler calls logged, frames written,
\* sockets constructed
MaxSubmissions == 2
MaxCallbacks == 3
MaxWire == 3
MaxRequestSockets == 2
\* bounds of SpecClientHistory
MaxHistorySubmissions == 2
MaxHistoryCallbacks == 2
MaxHistoryWire == 3
MaxHistorySockets == 2
MaxHeld == 1
MaxHeldLen == 2
\* SpecEndToEnd: frames the relay processed, invocations started, submissions
\* sent, handler calls logged, frames the client wrote, sockets constructed
MaxE2EMsgs == 3
MaxE2EInv == 1
MaxE2ESubmissions == 1
MaxE2ECallbacks == 5
MaxE2EWire == 3
MaxE2ESockets == 2
\* bounds of SpecMcp
MaxPosts == 52
MaxVariedPosts == 2
\* the number of entries the MCP server keeps in its session history
HistoryLimit == 50
\* bounds of SpecFollowUp
MaxFollowUpSubmissions == 3
MaxFollowUpCallbacks == 6
MaxFollowUpWire == 4

\* ------------------------------------------------------------ input domains
ProviderNames == {"claude-code", "other-agent"}
AgentIds == ProviderNames \cup {"unknown-agent"}
SessionIds == {"s1", "s2"}
Conns == 1..MaxConns

Contexts ==
    { [content |-> << <<"<button>">> >>, prompt |-> <<"make it bigger">>, selectedCount |-> 1],
      [content |-> <<>>, prompt |-> <<"fix it">>, selectedCount |-> 0] }
ResumePrompts == { <<"continue">> }

\* providers option of createRelayServer, in registration order
ProviderLists == { <<>>, <<"claude-code">>, <<"claude-code", "other-agent">> }

\* what sdk.query() may settle with (SpecProvider)
SdkResults == { [isString |-> TRUE, value |-> "done"], [isString |-> FALSE, value |-> "obj"] }
SdkErrors ==
    { [name |-> "AbortError", message |-> <<"aborted">>],
      [name |-> "Error", message |-> <<"boom">>],
      [name |-> "Error", message |-> <<>>] }

\* what sdk.query() may settle with in the broker's specifications
RelaySdkResults == { [isString |-> TRUE, value |-> "done"] }
RelaySdkErrors ==
    { [name |-> "AbortError", message |-> <<"aborted">>],
      [name |-> "Error", message |-> <<"boom">>] }

\* which of the caller's callbacks throws when called ("none": none does)
Throwing == {"none", "onStatus", "onDone", "onError"}
CallbackError == [name |-> "Error", message |-> <<"callback failed">>]

VARIABLES
    providers,        \* options.providers (names, registration order)
    sessionStore,     \* Map sessionId -> [agentId, lastContext]
    conn,             \* server side sockets: "new" | "open" | "closed"
    outbox,           \* per connection, the frames the broker wrote to it
    invs,             \* handleRequest invocations (the async frames), by index
    activeSessions,   \* per provider: Map sessionId -> invocation owning the AbortController
    sessionHistory,   \* per provider: Map sessionId -> [prompts, results]
    sdk,              \* per provider: this.sdk is loaded
    nMsgs,            \* history: the number of inbound frames processed
    lastFrame,        \* history: the last inbound frame processed, with its connection
    accepted,         \* history: per session, the last agent-request that named a
                      \* registered provider
    lastCalls,        \* history: provider methods called while handling the last frame
    lastSent,         \* history: frames written synchronously while handling the last frame
    unhandled         \* history: a promise of the message handler rejected (nothing
                      \* handles it)

VARIABLES
    ws,               \* AgentClient.ws: the current socket (its index in socks), 0 for null
    url,              \* AgentClient.url
    clientSessionId,  \* AgentClient.sessionId: the n-th randomUUID(), 0 for ''
    reconnectTimer,   \* AgentClient.reconnectTimer: a timer id, 0 for null
    shouldReconnect,  \* AgentClient.shouldReconnect
    socks,            \* every WebSocket the client constructed: [state, errored,
                      \* received (the number of message events it delivered)]
    timers,           \* the setTimeout timers that are pending
    connLog,          \* history: the values reported through onConnectionChange
    wire,             \* history: the frames the client wrote, with the socket
    requestHistory,   \* AgentClient._requestHistory
    pendingEntry,     \* AgentClient._pendingEntry: <<>> for null, else <<entry>>
    cbLog,            \* history: the calls of onStatus, onDone, onError, onHandlers
    subs,             \* history: the submissions the client sent, with the terminal
                      \* message that answered each
    held              \* the arrays getHistory() returned to the page: [alias (the
                      \* array is _requestHistory itself), items]

VARIABLES
    storedContext,     \* mcp/server.ts storedContext: <<>> for null, else <<payload>>
    mcpSessionHistory, \* mcp/server.ts sessionHistory: entries [id, content, prompt]
    sessionCounter,    \* mcp/server.ts sessionCounter
    mcpReply,          \* history: the last answer of the MCP server, an HTTP response
                       \* or a tool result
    lastPosted,        \* history: the payload of the last POST /context that carried
                       \* a well-formed payload, <<>> before the first
    readsSince         \* history: the get_element_context calls since that POST,
                       \* counted up to 2

clientVars == <<ws, url, clientSessionId, reconnectTimer, shouldReconnect, socks, timers,
                connLog, wire, requestHistory, pendingEntry, cbLog, subs, held>>

mcpVars == <<storedContext, mcpSessionHistory, sessionCounter, mcpReply, lastPosted, readsSince>>

relayVars == <<providers, sessionStore, conn, outbox, invs, activeSessions,
               sessionHistory, sdk, nMsgs, lastFrame, accepted, lastCalls, lastSent, unhandled>>

\* ---------------------------------------------------------------- Map helpers
\* A JavaScript Map as a function on its keys, built with :> and @@.
EmptyMap == <<>>
MapHas(m, k) == k \in DOMAIN m
MapSet(m, k, v) == (k :> v) @@ m

RECURSIVE Restrict(_, _)
Restrict(m, ks) ==
    IF ks = {} THEN EmptyMap
    ELSE LET k == CHOOSE x \in ks : TRUE
         IN (k :> m[k]) @@ Restrict(m, ks \ {k})

MapDelete(m, k) == Restrict(m, (DOMAIN m) \ {k})

RECURSIVE Join(_, _)
\* Array.prototype.join on strings-as-token-sequences
Join(parts, sep) ==
    IF Len(parts) = 0 THEN <<>>
    ELSE IF Len(parts) = 1 THEN parts[1]
    ELSE parts[1] \o sep \o Join(Tail(parts), sep)

RECURSIVE Keys(_)
\* insertion-ordered keys of the Map built by providerMap.set(p.name, p)
Keys(ps) ==
    IF Len(ps) = 0 THEN <<>>
    ELSE LET rest == Keys(SubSeq(ps, 1, Len(ps) - 1))
             last == ps[Len(ps)]
         IN IF \E i \in 1..Len(rest) : rest[i] = last THEN rest ELSE Append(rest, last)

providerMap == Keys(providers)
Registered == { providerMap[i] : i \in 1..Len(providerMap) }

RECURSIVE NameStrings(_)
\* the names as JavaScript strings
NameStrings(keys) ==
    IF Len(keys) = 0 THEN <<>> ELSE << <<keys[1]>> >> \o NameStrings(Tail(keys))

\* ------------------------------------------------- the world the code acts on
\* The provider and callback code below is written as functions from one
\* value of the mutable state to the next, so that a handler that calls several
\* of them in sequence is one action.
World == [invs |-> invs, activeSessions |-> activeSessions,
          sessionHistory |-> sessionHistory, sdk |-> sdk, outbox |-> outbox]

SetWorld(w) ==
    /\ invs' = w.invs
    /\ activeSessions' = w.activeSessions
    /\ sessionHistory' = w.sessionHistory
    /\ sdk' = w.sdk
    /\ outbox' = w.outbox

\* ------------------------------------------------------------ createCallbacks
\* The frame a callback of createCallbacks(sessionId) serializes.
CallbackFrame(name, sessionId, payload) ==
    IF name = "onStatus" THEN [type |-> "agent-status", sessionId |-> sessionId, message |-> payload]
    ELSE IF name = "onDone" THEN [type |-> "agent-done", sessionId |-> sessionId, result |-> payload]
    ELSE [type |-> "agent-error", sessionId |-> sessionId, error |-> payload]

RECURSIVE SendOpen(_, _, _)
\* the frame is appended to the outbox of every open connection in cs
SendOpen(w, cs, frame) ==
    IF cs = {} THEN w
    ELSE LET c == CHOOSE x \in cs : TRUE
             w1 == IF conn[c] = "open" THEN [w EXCEPT !.outbox[c] = Append(@, frame)] ELSE w
         IN SendOpen(w1, cs \ {c}, frame)

\* mutant of Callback: the frame goes to every socket that is open
Callback_broadcast(w, i, name, payload) ==
    LET inv == w.invs[i]
        called == [w EXCEPT !.invs[i].calls = Append(@, name)]
    IN IF inv.conn # 0
       THEN SendOpen(called, Conns, CallbackFrame(name, inv.sessionId, payload))
       ELSE called

\* mutant of Callback: the sessionId is read from a variable the latest
\* request-shaped frame overwrote, not from the callbacks' own closure
Callback_sharedSession(w, i, name, payload) ==
    LET inv == w.invs[i]
        c == inv.conn
        called == [w EXCEPT !.invs[i].calls = Append(@, name)]
    IN IF c # 0 /\ conn[c] = "open"
       THEN [called EXCEPT !.outbox[c] =
                Append(@, CallbackFrame(name, w.invs[Len(w.invs)].sessionId, payload))]
       ELSE called

\* Invocation i calls callbacks.<name>(payload).  conn = 0 marks callbacks
\* supplied by a direct caller of the provider; otherwise they are the
\* broker's, which write to the originating socket while it is OPEN.
Callback(w, i, name, payload) ==
    LET inv == w.invs[i]
        c == inv.conn
        called == [w EXCEPT !.invs[i].calls = Append(@, name)]
    IN IF c # 0 /\ conn[c] = "open"
       THEN [called EXCEPT !.outbox[c] = Append(@, CallbackFrame(name, inv.sessionId, payload))]
       ELSE called

\* ---------------------------------------------------------- ClaudeCodeProvider
Returned(w, i) == [w EXCEPT !.invs[i].pc = "returned"]

\* mutant of the catch block: the controller stays registered
catchBlock_keepsController(w, i, err) ==
    LET inv == w.invs[i]
        text == IF err.message # <<>> THEN err.message ELSE <<"Unknown error from Claude Code">>
    IN IF err.name = "AbortError" THEN Returned(w, i)
       ELSE IF inv.throwing = "onError"
            THEN [Returned(Callback(w, i, "onError", text), i) EXCEPT !.invs[i].rejected = TRUE]
            ELSE Returned(Callback(w, i, "onError", text), i)

\* catch (err) { ... } of handleRequest
catchBlock(w, i, err) ==
    LET inv == w.invs[i]
        p == inv.provider
        w1 == [w EXCEPT !.activeSessions[p] = MapDelete(@, inv.sessionId)]
        text == IF err.message # <<>> THEN err.message ELSE <<"Unknown error from Claude Code">>
    IN IF err.name = "AbortError" THEN Returned(w1, i)
       ELSE IF inv.throwing = "onError"
            THEN [Returned(Callback(w1, i, "onError", text), i) EXCEPT !.invs[i].rejected = TRUE]
            ELSE Returned(Callback(w1, i, "onError", text), i)

\* the prompt handleRequest builds from its context
fullPrompt(context) ==
    LET contextBlock ==
            IF Len(context.content) > 0
            THEN <<"\n\nHere is the Svelte component context from the browser:\n\n">>
                 \o Join(context.content, <<"\n\n">>) \o <<"\n\n">>
            ELSE <<>>
    IN contextBlock \o context.prompt

\* The async frame of one handleRequest call.  aborted is its controller's
\* signal.aborted; calls, rejected, abortSeen, abortInQuery and alone are history:
\* the callbacks it called, whether its promise rejected, whether abort(sessionId)
\* ran while it was in flight / awaiting sdk.query(), and whether every earlier
\* invocation of its provider and session had returned or been aborted when it
\* started.
NewInvocation(w, p, sessionId, context, c, throwing, method) ==
    [provider |-> p, sessionId |-> sessionId, context |-> context, conn |-> c,
     throwing |-> throwing, method |-> method, pc |-> "loadSDK",
     aborted |-> FALSE, calls |-> <<>>, rejected |-> FALSE,
     abortSeen |-> FALSE, abortInQuery |-> FALSE,
     alone |-> \A j \in DOMAIN w.invs :
                  (w.invs[j].provider = p /\ w.invs[j].sessionId = sessionId)
                  => (w.invs[j].pc = "returned" \/ w.invs[j].aborted)]

\* handleRequest up to its first suspension (await this.loadSDK())
handleRequest(w, p, sessionId, context, c, throwing, method) ==
    [w EXCEPT !.invs = Append(@, NewInvocation(w, p, sessionId, context, c, throwing, method))]

\* handleRequest from the resolution of loadSDK() to await sdk.query(...)
afterLoadSDK(w, i) ==
    LET inv == w.invs[i]
        p == inv.provider
        S == inv.sessionId
        w1 == [w EXCEPT !.sdk[p] = TRUE, !.activeSessions[p] = MapSet(@, S, i)]
        w2 == Callback(w1, i, "onStatus", <<"Connecting to Claude Code...">>)
        h == IF MapHas(w2.sessionHistory[p], S) THEN w2.sessionHistory[p][S]
             ELSE [prompts |-> <<>>, results |-> <<>>]
        w3 == [w2 EXCEPT !.sessionHistory[p] =
                  MapSet(@, S, [h EXCEPT !.prompts = Append(@, fullPrompt(inv.context))])]
        w4 == Callback(w3, i, "onStatus", <<"Processing...">>)
    IN IF inv.throwing = "onStatus" THEN catchBlock(w2, i, CallbackError)
       ELSE [w4 EXCEPT !.invs[i].pc = "query"]

\* loadSDK() rejected: the import failed
loadSDKFailed(w, i) ==
    catchBlock(w, i, [name |-> "Error", message |->
        <<"@anthropic-ai/claude-agent-sdk not installed. Run: npm install @anthropic-ai/claude-agent-sdk">>])

\* typeof result === 'string' ? result : JSON.stringify(result)
resultStr(result) == IF result.isString THEN <<result.value>> ELSE <<"{", result.value, "}">>

\* handleRequest from the resolution of sdk.query(...) to its return
queryResolved(w, i, result) ==
    LET inv == w.invs[i]
        p == inv.provider
        S == inv.sessionId
        w1 == [w EXCEPT !.sessionHistory[p][S].results = Append(@, resultStr(result)),
                        !.activeSessions[p] = MapDelete(@, S)]
        w2 == Callback(w1, i, "onDone", resultStr(result))
    IN IF inv.aborted THEN Returned(w, i)
       ELSE IF inv.throwing = "onDone" THEN catchBlock(w2, i, CallbackError)
       ELSE Returned(w2, i)

\* sdk.query(...) rejected with err
queryRejected(w, i, err) == catchBlock(w, i, err)

RECURSIVE AbortFrom(_, _, _, _)
AbortFrom(w, p, sessionId, i) ==
    IF i > Len(w.invs) THEN w
    ELSE IF w.invs[i].provider = p /\ w.invs[i].sessionId = sessionId /\ w.invs[i].pc # "returned"
         THEN AbortFrom([w EXCEPT !.invs[i].aborted = TRUE], p, sessionId, i + 1)
         ELSE AbortFrom(w, p, sessionId, i + 1)

\* mutant of abort: every invocation of the session that has not returned is
\* cancelled, registered or not
abort_allInFlight(w, p, sessionId) ==
    [AbortFrom(w, p, sessionId, 1) EXCEPT !.activeSessions[p] =
        IF MapHas(@, sessionId) THEN MapDelete(@, sessionId) ELSE @]

\* abort(sessionId)
abort(w, p, sessionId) ==
    IF MapHas(w.activeSessions[p], sessionId)
    THEN [w EXCEPT !.invs[w.activeSessions[p][sessionId]].aborted = TRUE,
                   !.activeSessions[p] = MapDelete(@, sessionId)]
    ELSE w

\* mutant of undo: the query is issued directly, without loadSDK, the
\* registration of a controller, the statuses and the saved prompt
undo_direct(w, p, sessionId, c, throwing) ==
    [w EXCEPT !.invs =
        Append(@, [NewInvocation(w, p, sessionId,
                       [content |-> <<>>, prompt |-> <<"Undo the last change you made.">>,
                        selectedCount |-> 0], c, throwing, "undo")
                   EXCEPT !.pc = "query"])]

\* undo(sessionId, callbacks)
undo(w, p, sessionId, c, throwing) ==
    LET hs == w.sessionHistory[p]
        contextHint ==
            IF MapHas(hs, sessionId) /\ Len(hs[sessionId].prompts) > 0
            THEN <<"\n\nPrevious prompt was: ">> \o hs[sessionId].prompts[Len(hs[sessionId].prompts)]
            ELSE <<>>
    IN handleRequest(w, p, sessionId,
           [content |-> <<>>, prompt |-> <<"Undo the last change you made.">> \o contextHint,
            selectedCount |-> 0], c, throwing, "undo")

\* redo(sessionId, callbacks)
redo(w, p, sessionId, c, throwing) ==
    handleRequest(w, p, sessionId,
        [content |-> <<>>, prompt |-> <<"Redo the change you just undid.">>, selectedCount |-> 0],
        c, throwing, "redo")

\* resume(sessionId, prompt, callbacks)
resume(w, p, sessionId, prompt, c, throwing) ==
    LET hs == w.sessionHistory[p]
        contextBlock ==
            IF MapHas(hs, sessionId) /\ Len(hs[sessionId].results) > 0
            THEN <<"\n\nPrevious interaction result: ">> \o hs[sessionId].results[Len(hs[sessionId].results)]
            ELSE <<>>
    IN handleRequest(w, p, sessionId,
           [content |-> <<>>, prompt |-> prompt \o contextBlock, selectedCount |-> 0],
           c, throwing, "resume")

RECURSIVE MarkFrom(_, _, _, _)
MarkFrom(w, p, sessionId, i) ==
    IF i > Len(w.invs) THEN w
    ELSE IF w.invs[i].provider = p /\ w.invs[i].sessionId = sessionId /\ w.invs[i].pc # "returned"
         THEN MarkFrom([w EXCEPT !.invs[i].abortSeen = TRUE,
                                 !.invs[i].abortInQuery = @ \/ w.invs[i].pc = "query"],
                       p, sessionId, i + 1)
         ELSE MarkFrom(w, p, sessionId, i + 1)

\* history: abort(sessionId) runs on provider p while these invocations are in
\* flight (abortSeen), and while they await sdk.query() (abortInQuery)
MarkAbortSeen(w, p, sessionId) == MarkFrom(w, p, sessionId, 1)

\* --------------------------------------------------------------- relay broker
\* inbound frames: "unparseable" is a body JSON.parse rejects, "other" a
\* parsed value whose type property no case of the switch matches
Frames ==
    { [type |-> "unparseable"], [type |-> "other"], [type |-> "health"] }
    \cup { [type |-> "agent-request", agentId |-> a, sessionId |-> s, context |-> x] :
             a \in AgentIds, s \in SessionIds, x \in Contexts }
    \cup { [type |-> t, sessionId |-> s] :
             t \in {"agent-abort", "agent-undo", "agent-redo", "agent-retry"}, s \in SessionIds }
    \cup { [type |-> "agent-resume", sessionId |-> s, prompt |-> q] :
             s \in SessionIds, q \in ResumePrompts }

\* the body "null": JSON.parse returns null
NullFrame == [type |-> "null"]

HandlersMessage == [type |-> "handlers", agents |-> NameStrings(providerMap)]
HealthResponseMessage == [type |-> "health", status |-> "ok", agents |-> NameStrings(providerMap)]

UnknownAgentError(m) ==
    [type |-> "agent-error", sessionId |-> m.sessionId,
     error |-> <<"Unknown agent: ", m.agentId, ". Available: ">>
               \o Join(NameStrings(providerMap), <<", ">>)]
NoPreviousRequestError(m) ==
    [type |-> "agent-error", sessionId |-> m.sessionId,
     error |-> <<"No previous request to retry for this session">>]

\* ws.send(JSON.stringify(frame)) from the message handler
Send(w, c, frame) == [w EXCEPT !.outbox[c] = Append(@, frame)]

\* What handling one frame did: the new state, the provider methods called and
\* the frames written before the handler first suspended.
Handled(w, store, calls, sent) ==
    [w |-> w, sessionStore |-> store, calls |-> calls, sent |-> sent, threw |-> FALSE]

\* The handler threw before it did anything: the promise the async handler
\* returned is rejected, and the emitter that called it drops that promise.
Threw(w, store) ==
    [w |-> w, sessionStore |-> store, calls |-> <<>>, sent |-> <<>>, threw |-> TRUE]

\* case 'health'
onHealth(w, store, c, m) ==
    Handled(Send(w, c, HealthResponseMessage), store, <<>>, <<HealthResponseMessage>>)

\* mutant of onAgentRequest: the session is saved before the provider lookup
onAgentRequest_saveFirst(w, store, c, m) ==
    LET saved == MapSet(store, m.sessionId, [agentId |-> m.agentId, lastContext |-> m.context])
    IN IF m.agentId \notin Registered
       THEN Handled(Send(w, c, UnknownAgentError(m)), saved, <<>>, <<UnknownAgentError(m)>>)
       ELSE Handled(handleRequest(w, m.agentId, m.sessionId, m.context, c, "none", "handleRequest"),
                    saved,
                    <<[provider |-> m.agentId, method |-> "handleRequest",
                       sessionId |-> m.sessionId, context |-> m.context]>>,
                    <<>>)

\* mutant of onAgentRequest: a session already stored keeps its first entry
onAgentRequest_keepFirst(w, store, c, m) ==
    IF m.agentId \notin Registered
    THEN Handled(Send(w, c, UnknownAgentError(m)), store, <<>>, <<UnknownAgentError(m)>>)
    ELSE Handled(handleRequest(w, m.agentId, m.sessionId, m.context, c, "none", "handleRequest"),
                 IF MapHas(store, m.sessionId) THEN store
                 ELSE MapSet(store, m.sessionId, [agentId |-> m.agentId, lastContext |-> m.context]),
                 <<[provider |-> m.agentId, method |-> "handleRequest",
                    sessionId |-> m.sessionId, context |-> m.context]>>,
                 <<>>)

\* case 'agent-request'
onAgentRequest(w, store, c, m) ==
    IF m.agentId \notin Registered
    THEN Handled(Send(w, c, UnknownAgentError(m)), store, <<>>, <<UnknownAgentError(m)>>)
    ELSE Handled(handleRequest(w, m.agentId, m.sessionId, m.context, c, "none", "handleRequest"),
                 MapSet(store, m.sessionId, [agentId |-> m.agentId, lastContext |-> m.context]),
                 <<[provider |-> m.agentId, method |-> "handleRequest",
                    sessionId |-> m.sessionId, context |-> m.context]>>,
                 <<>>)

RECURSIVE abortEach(_, _, _)
\* for (const provider of providerMap.values()) provider.abort(sessionId)
abortEach(w, keys, sessionId) ==
    IF Len(keys) = 0 THEN w
    ELSE abortEach(abort(MarkAbortSeen(w, keys[1], sessionId), keys[1], sessionId),
                   Tail(keys), sessionId)

RECURSIVE abortCalls(_, _)
\* the calls that loop makes
abortCalls(keys, sessionId) ==
    IF Len(keys) = 0 THEN <<>>
    ELSE <<[provider |-> keys[1], method |-> "abort", sessionId |-> sessionId]>>
         \o abortCalls(Tail(keys), sessionId)

\* mutant of onAgentAbort: only the provider that owns the session is told
onAgentAbort_ownerOnly(w, store, c, m) ==
    LET owner == IF MapHas(store, m.sessionId) THEN <<store[m.sessionId].agentId>>
                 ELSE IF Len(providerMap) > 0 THEN <<providerMap[1]>> ELSE <<>>
    IN Handled(abortEach(w, owner, m.sessionId), store, abortCalls(owner, m.sessionId), <<>>)

\* case 'agent-abort'
onAgentAbort(w, store, c, m) ==
    Handled(abortEach(w, providerMap, m.sessionId), store,
            abortCalls(providerMap, m.sessionId), <<>>)

\* mutant of routeFollowUp: always the first registered provider
routeFollowUp_first(store, sessionId) ==
    IF Len(providerMap) > 0 THEN <<providerMap[1]>> ELSE <<>>

\* session ? providerMap.get(session.agentId) : providerMap.values().next().value
\* (<<>> when that is undefined, else the one provider name)
routeFollowUp(store, sessionId) ==
    IF MapHas(store, sessionId)
    THEN (IF store[sessionId].agentId \in Registered THEN <<store[sessionId].agentId>> ELSE <<>>)
    ELSE (IF Len(providerMap) > 0 THEN <<providerMap[1]>> ELSE <<>>)

\* mutant of onAgentUndo: the undo is saved as the session's last request
onAgentUndo_saves(w, store, c, m) ==
    LET provider == routeFollowUp(store, m.sessionId)
    IN IF provider = <<>> THEN Handled(w, store, <<>>, <<>>)
       ELSE Handled(undo(w, provider[1], m.sessionId, c, "none"),
                    MapSet(store, m.sessionId,
                           [agentId |-> provider[1],
                            lastContext |-> [content |-> <<>>, prompt |-> <<"Undo the last change">>,
                                             selectedCount |-> 0]]),
                    <<[provider |-> provider[1], method |-> "undo", sessionId |-> m.sessionId]>>, <<>>)

\* case 'agent-undo'
onAgentUndo(w, store, c, m) ==
    LET provider == routeFollowUp(store, m.sessionId)
    IN IF provider = <<>> THEN Handled(w, store, <<>>, <<>>)
       ELSE Handled(undo(w, provider[1], m.sessionId, c, "none"), store,
                    <<[provider |-> provider[1], method |-> "undo", sessionId |-> m.sessionId]>>, <<>>)

\* case 'agent-redo'
onAgentRedo(w, store, c, m) ==
    LET provider == routeFollowUp(store, m.sessionId)
    IN IF provider = <<>> THEN Handled(w, store, <<>>, <<>>)
       ELSE Handled(redo(w, provider[1], m.sessionId, c, "none"), store,
                    <<[provider |-> provider[1], method |-> "redo", sessionId |-> m.sessionId]>>, <<>>)

\* mutant of onAgentResume: the resume is saved as the session's last request
onAgentResume_saves(w, store, c, m) ==
    LET provider == routeFollowUp(store, m.sessionId)
    IN IF provider = <<>> THEN Handled(w, store, <<>>, <<>>)
       ELSE Handled(resume(w, provider[1], m.sessionId, m.prompt, c, "none"),
                    MapSet(store, m.sessionId,
                           [agentId |-> provider[1],
                            lastContext |-> [content |-> <<>>, prompt |-> m.prompt, selectedCount |-> 0]]),
                    <<[provider |-> provider[1], method |-> "resume", sessionId |-> m.sessionId,
                       prompt |-> m.prompt]>>, <<>>)

\* case 'agent-resume'
onAgentResume(w, store, c, m) ==
    LET provider == routeFollowUp(store, m.sessionId)
    IN IF provider = <<>> THEN Handled(w, store, <<>>, <<>>)
       ELSE Handled(resume(w, provider[1], m.sessionId, m.prompt, c, "none"), store,
                    <<[provider |-> provider[1], method |-> "resume", sessionId |-> m.sessionId,
                       prompt |-> m.prompt]>>, <<>>)

\* mutant of onAgentRetry: an unknown session falls back to the first provider,
\* as undo/redo/resume do
onAgentRetry_fallback(w, store, c, m) ==
    LET provider == routeFollowUp(store, m.sessionId)
        context == IF MapHas(store, m.sessionId) THEN store[m.sessionId].lastContext
                   ELSE [content |-> <<>>, prompt |-> <<"Retry">>, selectedCount |-> 0]
    IN IF provider = <<>>
       THEN Handled(Send(w, c, NoPreviousRequestError(m)), store, <<>>, <<NoPreviousRequestError(m)>>)
       ELSE Handled(handleRequest(w, provider[1], m.sessionId, context, c, "none", "handleRequest"),
                    store,
                    <<[provider |-> provider[1], method |-> "handleRequest",
                       sessionId |-> m.sessionId, context |-> context]>>,
                    <<>>)

\* case 'agent-retry'
onAgentRetry(w, store, c, m) ==
    IF ~MapHas(store, m.sessionId)
    THEN Handled(Send(w, c, NoPreviousRequestError(m)), store, <<>>, <<NoPreviousRequestError(m)>>)
    ELSE LET session == store[m.sessionId]
         IN IF session.agentId \notin Registered THEN Handled(w, store, <<>>, <<>>)
            ELSE Handled(handleRequest(w, session.agentId, m.sessionId, session.lastContext,
                                       c, "none", "handleRequest"),
                         store,
                         <<[provider |-> session.agentId, method |-> "handleRequest",
                            sessionId |-> m.sessionId, context |-> session.lastContext]>>,
                         <<>>)

\* ws.on('message', ...): JSON.parse, then the switch on msg.type
onMessage(w, store, c, m) ==
    CASE m.type = "unparseable" -> Handled(w, store, <<>>, <<>>)
      [] m = NullFrame -> Threw(w, store)
      [] m.type = "health" -> onHealth(w, store, c, m)
      [] m.type = "agent-request" -> onAgentRequest(w, store, c, m)
      [] m.type = "agent-abort" -> onAgentAbort(w, store, c, m)
      [] m.type = "agent-undo" -> onAgentUndo(w, store, c, m)
      [] m.type = "agent-redo" -> onAgentRedo(w, store, c, m)
      [] m.type = "agent-resume" -> onAgentResume(w, store, c, m)
      [] m.type = "agent-retry" -> onAgentRetry(w, store, c, m)
      [] OTHER -> Handled(w, store, <<>>, <<>>)

\* mutant of onConnection: the announcement is left to the health reply
onConnection_silent(w, c) == w

\* wss.on('connection', ...): the handlers announcement
onConnection(w, c) == Send(w, c, HandlersMessage)

\* mutant of ws.on('close'): the sessions are dropped with the connection
onClose_dropSessions(store, c) == EmptyMap

\* ws.on('close'): the handler logs and leaves the session store as it is
onClose(store, c) == store

\* ---------------------------------------------------------------- AgentClient
Urls == {"ws://localhost:4722", "not a url"}
\* new WebSocket(url) throws a SyntaxError for a url it cannot parse
ConstructorThrows(u) == u = "not a url"
TimerIds == 1..MaxTimers

ClientWorld == [ws |-> ws, url |-> url, sessionId |-> clientSessionId,
                reconnectTimer |-> reconnectTimer, shouldReconnect |-> shouldReconnect,
                socks |-> socks, timers |-> timers, connLog |-> connLog, wire |-> wire,
                requestHistory |-> requestHistory, pendingEntry |-> pendingEntry,
                cbLog |-> cbLog, subs |-> subs, held |-> held]

SetClientWorld(k) ==
    /\ ws' = k.ws
    /\ url' = k.url
    /\ clientSessionId' = k.sessionId
    /\ reconnectTimer' = k.reconnectTimer
    /\ shouldReconnect' = k.shouldReconnect
    /\ socks' = k.socks
    /\ timers' = k.timers
    /\ connLog' = k.connLog
    /\ wire' = k.wire
    /\ requestHistory' = k.requestHistory
    /\ pendingEntry' = k.pendingEntry
    /\ cbLog' = k.cbLog
    /\ subs' = k.subs
    /\ held' = k.held

\* WebSocket.close(): a socket that is CONNECTING or OPEN starts closing; its
\* close event is delivered later
wsClose(k, s) ==
    IF k.socks[s].state \in {"CONNECTING", "OPEN"}
    THEN [k EXCEPT !.socks[s].state = "CLOSING"]
    ELSE k

\* the id setTimeout returns: one no pending timer has
newTimerId(k) ==
    IF TimerIds \ k.timers # {}
    THEN CHOOSE t \in TimerIds \ k.timers : \A u \in TimerIds \ k.timers : t <= u
    ELSE MaxTimers

\* mutant of scheduleReconnect: no guard on a timer that is already pending
scheduleReconnect_noGuard(k) ==
    IF ~k.shouldReconnect THEN k
    ELSE [k EXCEPT !.reconnectTimer = newTimerId(k), !.timers = @ \cup {newTimerId(k)}]

\* scheduleReconnect()
scheduleReconnect(k) ==
    IF ~k.shouldReconnect THEN k
    ELSE IF k.reconnectTimer # 0 THEN k
    ELSE [k EXCEPT !.reconnectTimer = newTimerId(k), !.timers = @ \cup {newTimerId(k)}]

\* doConnect()
doConnect(k) ==
    LET k1 == IF k.ws # 0 THEN [wsClose(k, k.ws) EXCEPT !.ws = 0] ELSE k
    IN IF ConstructorThrows(k1.url) THEN scheduleReconnect(k1)
       ELSE [k1 EXCEPT !.socks = Append(@, [state |-> "CONNECTING", errored |-> FALSE, received |-> 0]),
                       !.ws = Len(k1.socks) + 1]

\* connect(url)
connect(k, u) ==
    doConnect([k EXCEPT !.url = u, !.shouldReconnect = TRUE, !.sessionId = @ + 1])

\* ws.onopen of socket s
onopen(k, s) ==
    LET k1 == [k EXCEPT !.connLog = Append(@, TRUE)]
    IN IF k1.ws # 0 /\ k1.socks[k1.ws].state = "OPEN"
       THEN [k1 EXCEPT !.wire = Append(@, [sock |-> k1.ws, frame |-> [type |-> "health"]])]
       ELSE k1

\* mutant of ws.onclose: the change is reported but no reconnect is scheduled
onclose_noReconnect(k, s) == [k EXCEPT !.connLog = Append(@, FALSE)]

\* ws.onclose of socket s
onclose(k, s) == scheduleReconnect([k EXCEPT !.connLog = Append(@, FALSE)])

\* mutant of the reconnect callback: a reconnect draws a new session id
reconnectCallback_newSession(k) ==
    LET k1 == [k EXCEPT !.reconnectTimer = 0]
    IN IF k1.shouldReconnect THEN doConnect([k1 EXCEPT !.sessionId = @ + 1]) ELSE k1

\* the callback scheduleReconnect passes to setTimeout
reconnectCallback(k) ==
    LET k1 == [k EXCEPT !.reconnectTimer = 0]
    IN IF k1.shouldReconnect THEN doConnect(k1) ELSE k1

\* mutant of disconnect: the field is reset but the timer is not cleared
disconnect_keepTimer(k) ==
    LET k1 == [k EXCEPT !.shouldReconnect = FALSE, !.reconnectTimer = 0]
    IN IF k1.ws # 0 THEN [wsClose(k1, k1.ws) EXCEPT !.ws = 0] ELSE k1

\* disconnect()
disconnect(k) ==
    LET k1 == [k EXCEPT !.shouldReconnect = FALSE]
        k2 == IF k1.reconnectTimer # 0
              THEN [k1 EXCEPT !.timers = @ \ {k1.reconnectTimer}, !.reconnectTimer = 0]
              ELSE k1
    IN IF k2.ws # 0 THEN [wsClose(k2, k2.ws) EXCEPT !.ws = 0] ELSE k2

\* --------------------------------------------- AgentClient: requests, history
\* AgentHistoryEntry: an optional field is a sequence of at most one value
\* (<<>> when the field is absent); timestamp is left out
HistoryEntry(prompt, content) ==
    [prompt |-> prompt, content |-> content, result |-> <<>>, error |-> <<>>]

NotConnectedError == <<"Not connected to relay server">>

\* !this.ws || this.ws.readyState !== WebSocket.OPEN
NotConnected(k) == k.ws = 0 \/ k.socks[k.ws].state # "OPEN"

\* this.onX?.(arg)
CallHandler(k, name, arg) == [k EXCEPT !.cbLog = Append(@, [name |-> name, arg |-> arg])]

\* this.ws.send(JSON.stringify(msg))
wsSend(k, msg) == [k EXCEPT !.wire = Append(@, [sock |-> k.ws, frame |-> msg])]

\* the calls the page can make
ClientAgentIds == {"claude-code"}
ClientContexts ==
    { [content |-> << <<"<button>">> >>, prompt |-> <<"make it bigger">>, selectedCount |-> 1] }
ApiCalls ==
    { [verb |-> "sendRequest", agentId |-> a, context |-> x] :
        a \in ClientAgentIds, x \in ClientContexts }
    \cup { [verb |-> v] : v \in {"abort", "undo", "redo", "retry"} }
    \cup { [verb |-> "resume", prompt |-> q] : q \in ResumePrompts }

\* mutant of sendRequest: no check that the socket is open
sendRequest_noGuard(k, agentId, context) ==
    wsSend([k EXCEPT !.pendingEntry = <<HistoryEntry(context.prompt, context.content)>>],
           [type |-> "agent-request", agentId |-> agentId, sessionId |-> k.sessionId,
            context |-> context])

\* sendRequest(agentId, context)
sendRequest(k, agentId, context) ==
    IF NotConnected(k) THEN CallHandler(k, "onError", NotConnectedError)
    ELSE wsSend([k EXCEPT !.pendingEntry = <<HistoryEntry(context.prompt, context.content)>>],
                [type |-> "agent-request", agentId |-> agentId, sessionId |-> k.sessionId,
                 context |-> context])

\* AgentClient.abort()
AgentClient_abort(k) ==
    IF NotConnected(k) THEN k
    ELSE wsSend(k, [type |-> "agent-abort", sessionId |-> k.sessionId])

\* AgentClient.undo()
AgentClient_undo(k) ==
    IF NotConnected(k) THEN CallHandler(k, "onError", NotConnectedError)
    ELSE wsSend([k EXCEPT !.pendingEntry = <<HistoryEntry(<<"Undo the last change">>, <<>>)>>],
                [type |-> "agent-undo", sessionId |-> k.sessionId])

\* AgentClient.redo()
AgentClient_redo(k) ==
    IF NotConnected(k) THEN CallHandler(k, "onError", NotConnectedError)
    ELSE wsSend([k EXCEPT !.pendingEntry = <<HistoryEntry(<<"Redo the last change">>, <<>>)>>],
                [type |-> "agent-redo", sessionId |-> k.sessionId])

\* AgentClient.resume(prompt)
AgentClient_resume(k, prompt) ==
    IF NotConnected(k) THEN CallHandler(k, "onError", NotConnectedError)
    ELSE wsSend([k EXCEPT !.pendingEntry = <<HistoryEntry(prompt, <<>>)>>],
                [type |-> "agent-resume", sessionId |-> k.sessionId, prompt |-> prompt])

\* AgentClient.retry(): lastEntry?.prompt || 'Retry', lastEntry?.content || []
retry(k) ==
    LET n == Len(k.requestHistory)
        prompt == IF n = 0 \/ k.requestHistory[n].prompt = <<>>
                  THEN <<"Retry">> ELSE k.requestHistory[n].prompt
        content == IF n = 0 THEN <<>> ELSE k.requestHistory[n].content
    IN IF NotConnected(k) THEN CallHandler(k, "onError", NotConnectedError)
       ELSE wsSend([k EXCEPT !.pendingEntry = <<HistoryEntry(prompt, content)>>],
                   [type |-> "agent-retry", sessionId |-> k.sessionId])

\* one call of the page
apiCall(k, call) ==
    CASE call.verb = "sendRequest" -> sendRequest(k, call.agentId, call.context)
      [] call.verb = "abort" -> AgentClient_abort(k)
      [] call.verb = "undo" -> AgentClient_undo(k)
      [] call.verb = "redo" -> AgentClient_redo(k)
      [] call.verb = "resume" -> AgentClient_resume(k, call.prompt)
      [] call.verb = "retry" -> retry(k)

\* mutant of the terminal cases: the value is stored as result and as error
finalize_both(k, field, value) ==
    IF k.pendingEntry = <<>> THEN k
    ELSE [k EXCEPT !.requestHistory =
                       Append(@, [k.pendingEntry[1] EXCEPT !.result = <<value>>,
                                                           !.error = <<value>>]),
                   !.pendingEntry = <<>>]

\* mutant of the terminal cases: the entry is pushed but stays pending
finalize_keepPending(k, field, value) ==
    IF k.pendingEntry = <<>> THEN k
    ELSE [k EXCEPT !.requestHistory =
                       Append(@, IF field = "result"
                                 THEN [k.pendingEntry[1] EXCEPT !.result = <<value>>]
                                 ELSE [k.pendingEntry[1] EXCEPT !.error = <<value>>])]

\* mutant of finalize: the pending entry is pushed without the outcome
finalize_noOutcome(k, field, value) ==
    IF k.pendingEntry = <<>> THEN k
    ELSE [k EXCEPT !.requestHistory = Append(@, k.pendingEntry[1]), !.pendingEntry = <<>>]

\* case 'agent-done' / case 'agent-error': the pending entry, if any, gets the
\* outcome and moves to the history
finalize(k, field, value) ==
    IF k.pendingEntry = <<>> THEN k
    ELSE [k EXCEPT !.requestHistory =
                       Append(@, IF field = "result"
                                 THEN [k.pendingEntry[1] EXCEPT !.result = <<value>>]
                                 ELSE [k.pendingEntry[1] EXCEPT !.error = <<value>>]),
                   !.pendingEntry = <<>>]

\* ws.onmessage of socket s; "unparseable" is a body JSON.parse rejects
onmessage(k, s, msg) ==
    CASE msg.type = "agent-status" -> CallHandler(k, "onStatus", msg.message)
      [] msg.type = "agent-done" ->
            CallHandler(finalize(k, "result", msg.result), "onDone", msg.result)
      [] msg.type = "agent-error" ->
            CallHandler(finalize(k, "error", msg.error), "onError", msg.error)
      [] msg.type = "handlers" -> CallHandler(k, "onHandlers", msg.agents)
      [] OTHER -> k

\* mutant of getHistory: the history array itself is returned
getHistory_alias(k) == [alias |-> TRUE, items |-> k.requestHistory]

\* getHistory(): [...this._requestHistory], a new array of the same entries
getHistory(k) == [alias |-> FALSE, items |-> k.requestHistory]

\* what the page reads from array h it holds
ItemsOf(k, h) == IF k.held[h].alias THEN k.requestHistory ELSE k.held[h].items

\* an entry the page made itself
ForeignEntry == HistoryEntry(<<"page">>, <<>>)

\* the arrays one mutation by the page turns array a into: push, length = 0,
\* shift, reverse, a[0] = entry
ArrayMutations(a) ==
    {Append(a, ForeignEntry), <<>>}
    \cup (IF a = <<>> THEN {}
          ELSE {Tail(a), [n \in DOMAIN a |-> a[Len(a) + 1 - n]],
                <<ForeignEntry>> \o Tail(a)})

\* the page mutates array h into new: an array that is the history array
\* itself changes the history, a copy does not
pageMutates(k, h, new) ==
    IF k.held[h].alias
    THEN [k EXCEPT !.requestHistory = new]
    ELSE [k EXCEPT !.held = [@ EXCEPT ![h] = [alias |-> FALSE, items |-> new]]]

\* ------------------------------------------------------------------ MCP server
\* JavaScript values a request body can parse to
JsString(x) == [kind |-> "string", value |-> x]
JsNumber(x) == [kind |-> "number", value |-> x]
JsUndefined == [kind |-> "undefined"]
JsNull == [kind |-> "null"]
JsArray(items) == [kind |-> "array", items |-> items]
JsObject(content, prompt) == [kind |-> "object", content |-> content, prompt |-> prompt]

PromptedPayload == JsObject(JsArray(<<JsString("<button>")>>), JsString("make it bigger"))
PlainPayload == JsObject(JsArray(<<JsString("<div>"), JsString("<span>")>>), JsUndefined)
JsonValues ==
    { PromptedPayload, PlainPayload,
      JsNull,
      JsString("<button>"),
      JsObject(JsUndefined, JsUndefined),
      JsObject(JsString("<button>"), JsUndefined),
      JsObject(JsArray(<<JsString("<button>"), JsNumber("1")>>), JsUndefined),
      JsObject(JsArray(<<JsString("<button>")>>), JsNumber("1")) }

\* a request body: text JSON.parse accepts, with the value it parses to, or
\* text it throws on
Bodies == { [parses |-> TRUE, value |-> v] : v \in JsonValues } \cup { [parses |-> FALSE] }

HttpRequests ==
    { [method |-> "POST", url |-> "/context", body |-> b] : b \in Bodies }
    \cup { [method |-> "GET", url |-> "/health"],
           [method |-> "GET", url |-> "/context"],
           [method |-> "OPTIONS", url |-> "/context"] }

McpWorld == [storedContext |-> storedContext, sessionHistory |-> mcpSessionHistory,
             sessionCounter |-> sessionCounter, reply |-> mcpReply]

SetMcpWorld(m) ==
    /\ storedContext' = m.storedContext
    /\ mcpSessionHistory' = m.sessionHistory
    /\ sessionCounter' = m.sessionCounter
    /\ mcpReply' = m.reply

\* mutant of isValidContextPayload: the items of content are not inspected
isValidContextPayload_anyItems(data) ==
    IF data.kind # "object" THEN FALSE
    ELSE IF data.content.kind # "array" THEN FALSE
    ELSE data.prompt.kind \in {"undefined", "string"}

\* isValidContextPayload(data)
isValidContextPayload(data) ==
    IF data.kind # "object" THEN FALSE
    ELSE IF data.content.kind # "array" THEN FALSE
    ELSE IF \E n \in DOMAIN data.content.items : data.content.items[n].kind # "string"
         THEN FALSE
    ELSE data.prompt.kind \in {"undefined", "string"}

\* sendJson(res, status, data)
sendJson(m, status, data) == [m EXCEPT !.reply = [kind |-> "http", status |-> status, body |-> data]]

\* sessionHistory.slice(-HistoryLimit)
sliceLast(h, n) == IF Len(h) > n THEN SubSeq(h, Len(h) - n + 1, Len(h)) ELSE h

\* POST /context, from the end of the body on
postContext(m, body) ==
    IF ~body.parses THEN sendJson(m, 400, [error |-> "Invalid JSON"])
    ELSE IF ~isValidContextPayload(body.value)
         THEN sendJson(m, 400,
                       [error |-> "Invalid payload. Expected { content: string[], prompt?: string }"])
    ELSE LET data == body.value
             counter == m.sessionCounter + 1
             pushed == Append(m.sessionHistory,
                              [id |-> <<"session-", counter>>, content |-> data.content,
                               prompt |-> data.prompt])
         IN sendJson([m EXCEPT !.storedContext = <<data>>,
                               !.sessionCounter = counter,
                               !.sessionHistory = IF Len(pushed) > HistoryLimit
                                                  THEN sliceLast(pushed, HistoryLimit)
                                                  ELSE pushed],
                     200, [ok |-> TRUE])

\* the request listener of startHttpServer
httpListener(m, req) ==
    IF req.method = "OPTIONS" THEN [m EXCEPT !.reply = [kind |-> "http", status |-> 204]]
    ELSE IF req.method = "GET" /\ req.url = "/health"
         THEN sendJson(m, 200, [status |-> "ok", hasContext |-> m.storedContext # <<>>])
    ELSE IF req.method = "POST" /\ req.url = "/context" THEN postContext(m, req.body)
    ELSE sendJson(m, 404, [error |-> "Not found"])

NoContextText ==
    <<"No context available. Alt+Click an element in the browser with svelte-grab active.">>

\* the text get_element_context builds from a context: its content items and,
\* when the prompt is a non-empty string, the instruction line, joined by "\n"
contextText(ctx) ==
    LET items == [n \in DOMAIN ctx.content.items |-> <<ctx.content.items[n].value>>]
        parts == IF ctx.prompt.kind = "string" /\ ctx.prompt.value # ""
                 THEN Append(items, <<"\nUser instruction: ", ctx.prompt.value>>)
                 ELSE items
    IN Join(parts, <<"\n">>)

\* mutant of get_element_context: the context is not cleared
get_element_context_keeps(m) ==
    IF m.storedContext = <<>> THEN [m EXCEPT !.reply = [kind |-> "tool", text |-> NoContextText]]
    ELSE [m EXCEPT !.reply = [kind |-> "tool", text |-> contextText(m.storedContext[1])]]

\* the handler of the tool get_element_context
get_element_context(m) ==
    IF m.storedContext = <<>> THEN [m EXCEPT !.reply = [kind |-> "tool", text |-> NoContextText]]
    ELSE [m EXCEPT !.storedContext = <<>>,
                   !.reply = [kind |-> "tool", text |-> contextText(m.storedContext[1])]]

\* ------------------------------------------------------------------- relay: Init
RelayInit ==
    /\ providers \in ProviderLists
    /\ sessionStore = EmptyMap
    /\ conn = [c \in Conns |-> "new"]
    /\ outbox = [c \in Conns |-> <<>>]
    /\ invs = <<>>
    /\ activeSessions = [p \in ProviderNames |-> EmptyMap]
    /\ sessionHistory = [p \in ProviderNames |-> EmptyMap]
    /\ sdk = [p \in ProviderNames |-> FALSE]
    /\ nMsgs = 0
    /\ lastFrame = [conn |-> 0, msg |-> [type |-> "none"]]
    /\ accepted = EmptyMap
    /\ lastCalls = <<>>
    /\ lastSent = <<>>
    /\ unhandled = FALSE

ClientInit ==
    /\ ws = 0
    /\ url = ""
    /\ clientSessionId = 0
    /\ reconnectTimer = 0
    /\ shouldReconnect = FALSE
    /\ socks = <<>>
    /\ timers = {}
    /\ connLog = <<>>
    /\ wire = <<>>
    /\ requestHistory = <<>>
    /\ pendingEntry = <<>>
    /\ cbLog = <<>>
    /\ subs = <<>>
    /\ held = <<>>

\* the MCP server module as loaded
McpInit ==
    /\ storedContext = <<>>
    /\ mcpSessionHistory = <<>>
    /\ sessionCounter = 0
    /\ mcpReply = [kind |-> "none"]
    /\ lastPosted = <<>>
    /\ readsSince = 0

\* ---------------------------------------------------------------- relay: actions
\* a client connects: wss.on('connection')
Connection(c) ==
    /\ conn[c] = "new"
    /\ \A d \in Conns : d < c => conn[d] # "new"
    /\ conn' = [conn EXCEPT ![c] = "open"]
    /\ SetWorld(onConnection(World, c))
    /\ UNCHANGED <<providers, sessionStore, nMsgs, lastFrame, accepted, lastCalls, lastSent, unhandled>>
    /\ UNCHANGED <<clientVars, mcpVars>>

\* the socket of connection c closes (readyState leaves 1)
ConnectionCloses(c) ==
    /\ conn[c] = "open"
    /\ conn' = [conn EXCEPT ![c] = "closed"]
    /\ sessionStore' = onClose(sessionStore, c)
    /\ UNCHANGED <<providers, outbox, invs, activeSessions, sessionHistory,
                   sdk, nMsgs, lastFrame, accepted, lastCalls, lastSent, unhandled>>
    /\ UNCHANGED <<clientVars, mcpVars>>

\* the invocations that have not returned
InFlight(w) == Cardinality({ i \in DOMAIN w.invs : w.invs[i].pc # "returned" })

\* mutant of eventLoopFree: a handler that does not return before the provider
\* it called has resolved
eventLoopFree_blocking(w) == InFlight(w) = 0

\* The message handler is an async function: it returns to the event loop at
\* its first await, so no handler is running when the next event is delivered.
eventLoopFree(w) == TRUE

\* frame m arrives on connection c: ws.on('message')
Message(c, m, maxMsgs, maxInv, maxInFlight) ==
    LET h == onMessage(World, sessionStore, c, m)
    IN /\ conn[c] = "open"
       /\ eventLoopFree(World)
       /\ nMsgs < maxMsgs
       /\ Len(h.w.invs) <= maxInv
       /\ Len(h.w.invs) > Len(invs) => InFlight(h.w) <= maxInFlight
       /\ SetWorld(h.w)
       /\ sessionStore' = h.sessionStore
       /\ nMsgs' = nMsgs + 1
       /\ lastFrame' = [conn |-> c, msg |-> m]
       /\ accepted' = IF m.type = "agent-request" /\ m.agentId \in Registered
                      THEN MapSet(accepted, m.sessionId,
                                  [agentId |-> m.agentId, context |-> m.context])
                      ELSE accepted
       /\ lastCalls' = h.calls
       /\ lastSent' = h.sent
       /\ unhandled' = (unhandled \/ h.threw)
       /\ UNCHANGED <<providers, conn>>
       /\ UNCHANGED <<clientVars, mcpVars>>

\* await this.loadSDK() of invocation i resolves
LoadSDKResolves(i) ==
    /\ invs[i].pc = "loadSDK"
    /\ SetWorld(afterLoadSDK(World, i))
    /\ UNCHANGED <<providers, sessionStore, conn, nMsgs, lastFrame, accepted, lastCalls, lastSent, unhandled>>
    /\ UNCHANGED <<clientVars, mcpVars>>

\* await this.loadSDK() of invocation i rejects: the import failed
LoadSDKRejects(i) ==
    /\ invs[i].pc = "loadSDK"
    /\ ~sdk[invs[i].provider]
    /\ SetWorld(loadSDKFailed(World, i))
    /\ UNCHANGED <<providers, sessionStore, conn, nMsgs, lastFrame, accepted, lastCalls, lastSent, unhandled>>
    /\ UNCHANGED <<clientVars, mcpVars>>

\* await sdk.query() of invocation i resolves with r
QueryResolves(i, r) ==
    /\ invs[i].pc = "query"
    /\ SetWorld(queryResolved(World, i, r))
    /\ UNCHANGED <<providers, sessionStore, conn, nMsgs, lastFrame, accepted, lastCalls, lastSent, unhandled>>
    /\ UNCHANGED <<clientVars, mcpVars>>

\* await sdk.query() of invocation i rejects with e
QueryRejects(i, e) ==
    /\ invs[i].pc = "query"
    /\ SetWorld(queryRejected(World, i, e))
    /\ UNCHANGED <<providers, sessionStore, conn, nMsgs, lastFrame, accepted, lastCalls, lastSent, unhandled>>
    /\ UNCHANGED <<clientVars, mcpVars>>

\* code other than the broker calls handleRequest/undo/redo/resume of the
\* exported provider with callbacks of its own, one of which may throw
DirectCall(p, call, S, t) ==
    /\ Len(invs) < MaxProviderInv
    /\ SetWorld(CASE call.method = "handleRequest" ->
                       handleRequest(World, p, S, call.context, 0, t, "handleRequest")
                  [] call.method = "undo" -> undo(World, p, S, 0, t)
                  [] call.method = "redo" -> redo(World, p, S, 0, t)
                  [] call.method = "resume" -> resume(World, p, S, call.prompt, 0, t))
    /\ UNCHANGED <<providers, sessionStore, conn, nMsgs, lastFrame, accepted, lastCalls, lastSent, unhandled>>
    /\ UNCHANGED <<clientVars, mcpVars>>

\* that code calls abort(S)
DirectAbort(p, S) ==
    /\ SetWorld(abort(MarkAbortSeen(World, p, S), p, S))
    /\ UNCHANGED <<providers, sessionStore, conn, nMsgs, lastFrame, accepted, lastCalls, lastSent, unhandled>>
    /\ UNCHANGED <<clientVars, mcpVars>>

DirectCalls ==
    { [method |-> "handleRequest", context |-> x] : x \in Contexts }
    \cup { [method |-> "undo"], [method |-> "redo"] }
    \cup { [method |-> "resume", prompt |-> q] : q \in ResumePrompts }

\* the relay process: any frames on any connection
NextRelay ==
    \/ Connection(1)
    \/ ConnectionCloses(1)
    \/ \E c \in {1}, m \in Frames \cup {NullFrame} : Message(c, m, MaxMsgs, MaxInv, MaxInv)
    \/ \E i \in DOMAIN invs : LoadSDKResolves(i)
    \/ \E i \in DOMAIN invs : LoadSDKRejects(i)
    \/ \E i \in DOMAIN invs, r \in RelaySdkResults : QueryResolves(i, r)
    \/ \E i \in DOMAIN invs, e \in RelaySdkErrors : QueryRejects(i, e)

\* the relay process serving one client that uses one session
SessionFrames == { m \in Frames : "sessionId" \in DOMAIN m => m.sessionId = "s1" }

NextSession ==
    \/ Connection(1)
    \/ ConnectionCloses(1)
    \/ \E c \in {1}, m \in SessionFrames :
          Message(c, m, MaxSessionMsgs, MaxSessionInv, MaxInFlight)
    \/ \E i \in DOMAIN invs : LoadSDKResolves(i)
    \/ \E i \in DOMAIN invs : LoadSDKRejects(i)
    \/ \E i \in DOMAIN invs, r \in RelaySdkResults : QueryResolves(i, r)
    \/ \E i \in DOMAIN invs, e \in RelaySdkErrors : QueryRejects(i, e)

\* the relay process serving a client that uses one session and reconnects
NextConnections ==
    \/ \E c \in Conns : Connection(c)
    \/ \E c \in Conns : ConnectionCloses(c)
    \/ \E c \in Conns, m \in SessionFrames : Message(c, m, MaxMsgs, MaxInv, MaxInv)
    \/ \E i \in DOMAIN invs : LoadSDKResolves(i)
    \/ \E i \in DOMAIN invs : LoadSDKRejects(i)
    \/ \E i \in DOMAIN invs, r \in RelaySdkResults : QueryResolves(i, r)
    \/ \E i \in DOMAIN invs, e \in RelaySdkErrors : QueryRejects(i, e)

\* the relay process serving two sessions on two connections
DispatchFrames ==
    { m \in Frames :
        /\ m.type \in {"health", "agent-abort", "agent-request"}
        /\ m.type = "agent-request" => (m.agentId \in ProviderNames /\ m.context.selectedCount = 1) }

NextDispatch ==
    \/ \E c \in Conns : Connection(c)
    \/ \E c \in Conns : ConnectionCloses(c)
    \/ \E c \in Conns, m \in DispatchFrames : Message(c, m, MaxMsgs, MaxInv, MaxInv)
    \/ \E i \in DOMAIN invs : LoadSDKResolves(i)
    \/ \E i \in DOMAIN invs : LoadSDKRejects(i)
    \/ \E i \in DOMAIN invs, r \in RelaySdkResults : QueryResolves(i, r)
    \/ \E i \in DOMAIN invs, e \in RelaySdkErrors : QueryRejects(i, e)

\* one ClaudeCodeProvider driven through its methods
NextProvider ==
    \/ \E call \in DirectCalls, S \in SessionIds, t \in Throwing :
          DirectCall("claude-code", call, S, t)
    \/ \E S \in SessionIds : DirectAbort("claude-code", S)
    \/ \E i \in DOMAIN invs : LoadSDKResolves(i)
    \/ \E i \in DOMAIN invs : LoadSDKRejects(i)
    \/ \E i \in DOMAIN invs, r \in SdkResults : QueryResolves(i, r)
    \/ \E i \in DOMAIN invs, e \in SdkErrors : QueryRejects(i, e)

\* one ClaudeCodeProvider driven through its methods; sdk.query() rejects with
\* an AbortError only when its signal was aborted
NextProviderLive ==
    \/ \E call \in DirectCalls, S \in SessionIds, t \in Throwing :
          Len(invs) < MaxLiveInv /\ DirectCall("claude-code", call, S, t)
    \/ \E S \in SessionIds : DirectAbort("claude-code", S)
    \/ \E i \in DOMAIN invs : LoadSDKResolves(i)
    \/ \E i \in DOMAIN invs : LoadSDKRejects(i)
    \/ \E i \in DOMAIN invs, r \in SdkResults : QueryResolves(i, r)
    \/ \E i \in DOMAIN invs, e \in SdkErrors :
          (e.name = "AbortError" => invs[i].aborted) /\ QueryRejects(i, e)

\* the dynamic import of loadSDK() settles: it resolves or it rejects
LoadSDKSettles ==
    \E i \in 1..MaxLiveInv :
        i \in DOMAIN invs /\ (LoadSDKResolves(i) \/ LoadSDKRejects(i))

\* --------------------------------------------------------------- client: actions
\* the page calls connect(u)
Connect(u) ==
    /\ clientSessionId < MaxConnects
    /\ ~ConstructorThrows(u) => Len(socks) < MaxSockets
    /\ SetClientWorld(connect(ClientWorld, u))
    /\ UNCHANGED <<relayVars, mcpVars>>

\* the page calls disconnect()
Disconnect ==
    /\ SetClientWorld(disconnect(ClientWorld))
    /\ UNCHANGED <<relayVars, mcpVars>>

\* the open event of socket s
SocketOpens(s) ==
    /\ socks[s].state = "CONNECTING"
    /\ SetClientWorld(onopen([ClientWorld EXCEPT !.socks[s].state = "OPEN"], s))
    /\ UNCHANGED <<relayVars, mcpVars>>

\* an error event of socket s (ws.onerror does nothing; a close event follows)
SocketErrors(s) ==
    /\ socks[s].state \in {"CONNECTING", "OPEN"}
    /\ ~socks[s].errored
    /\ SetClientWorld([ClientWorld EXCEPT !.socks[s].errored = TRUE])
    /\ UNCHANGED <<relayVars, mcpVars>>

\* the close event of socket s: the connection failed, the server dropped it,
\* or a close() the client asked for completed
SocketCloses(s) ==
    /\ socks[s].state # "CLOSED"
    /\ SetClientWorld(onclose([ClientWorld EXCEPT !.socks[s].state = "CLOSED"], s))
    /\ UNCHANGED <<relayVars, mcpVars>>

\* pending timer t fires
TimerFires(t) ==
    /\ t \in timers
    /\ (shouldReconnect /\ ~ConstructorThrows(url)) => Len(socks) < MaxSockets
    /\ SetClientWorld(reconnectCallback([ClientWorld EXCEPT !.timers = @ \ {t}]))
    /\ UNCHANGED <<relayVars, mcpVars>>

NextClient ==
    \/ \E u \in Urls : Connect(u)
    \/ Disconnect
    \/ \E s \in DOMAIN socks : SocketOpens(s)
    \/ \E s \in DOMAIN socks : SocketErrors(s)
    \/ \E s \in DOMAIN socks : SocketCloses(s)
    \/ \E t \in timers : TimerFires(t)

\* the result and the error the relay answers the n-th submission with
Digits == <<"1", "2", "3", "4">>
ResultOf(n) == <<"result", Digits[n]>>
ErrorOf(n) == <<"error", Digits[n]>>

\* the submissions no terminal message has answered yet
Unanswered == { n \in DOMAIN subs : subs[n].outcome = <<>> }

\* the page calls one of sendRequest, abort, undo, redo, resume, retry
ApiCallWithin(call, maxSubmissions, maxCallbacks, maxWire) ==
    LET k == apiCall(ClientWorld, call)
        submitted == call.verb # "abort" /\ Len(k.wire) > Len(wire)
        k1 == IF submitted
              THEN [k EXCEPT !.subs = Append(@, [prompt |-> k.pendingEntry[1].prompt,
                                                 content |-> k.pendingEntry[1].content,
                                                 sock |-> k.ws, outcome |-> <<>>,
                                                 open |-> Unanswered])]
              ELSE k
    IN /\ Len(k1.subs) <= maxSubmissions
       /\ Len(k1.cbLog) <= maxCallbacks
       /\ Len(k1.wire) <= maxWire
       /\ SetClientWorld(k1)
       /\ UNCHANGED <<relayVars, mcpVars>>

ApiCall(call) == ApiCallWithin(call, MaxSubmissions, MaxCallbacks, MaxWire)

\* what the relay may write that answers no submission
ServerNotices ==
    { [type |-> "unparseable"],
      [type |-> "handlers", agents |-> <<"claude-code">>],
      [type |-> "agent-status", sessionId |-> clientSessionId, message |-> <<"Processing...">>] }

\* a message event of socket s that is not a terminal message
ServerMessage(s, msg) ==
    /\ socks[s].state = "OPEN"
    /\ Len(cbLog) < MaxCallbacks
    /\ SetClientWorld(onmessage(ClientWorld, s, msg))
    /\ UNCHANGED <<relayVars, mcpVars>>

\* a message event of socket s: the terminal message (agent-done when done,
\* else agent-error) of the oldest unanswered submission sent on s
ServerAnswers(s, done) ==
    /\ socks[s].state = "OPEN"
    /\ Len(cbLog) < MaxCallbacks
    /\ \E n \in Unanswered :
         /\ subs[n].sock = s
         /\ \A m \in Unanswered : subs[m].sock = s => n <= m
         /\ LET msg == IF done
                       THEN [type |-> "agent-done", sessionId |-> clientSessionId,
                             result |-> ResultOf(n)]
                       ELSE [type |-> "agent-error", sessionId |-> clientSessionId,
                             error |-> ErrorOf(n)]
                k == onmessage(ClientWorld, s, msg)
            IN SetClientWorld([k EXCEPT !.subs[n].outcome =
                                  <<IF done THEN ResultOf(n) ELSE ErrorOf(n)>>])
    /\ UNCHANGED <<relayVars, mcpVars>>

NextClientRequests ==
    \/ Len(socks) < MaxRequestSockets /\ Connect("ws://localhost:4722")
    \/ Disconnect
    \/ \E s \in DOMAIN socks : SocketOpens(s)
    \/ \E s \in DOMAIN socks : SocketCloses(s)
    \/ \E t \in timers : Len(socks) < MaxRequestSockets /\ TimerFires(t)
    \/ \E call \in ApiCalls : ApiCall(call)
    \/ \E s \in DOMAIN socks : \E msg \in ServerNotices : ServerMessage(s, msg)
    \/ \E s \in DOMAIN socks : \E done \in BOOLEAN : ServerAnswers(s, done)

\* the relay receives the next frame the client wrote, in the order written
UplinkWithin(maxMsgs, maxInv) ==
    /\ nMsgs < Len(wire)
    /\ Message(wire[nMsgs + 1].sock, wire[nMsgs + 1].frame, maxMsgs, maxInv, maxInv)

Uplink == UplinkWithin(MaxE2EMsgs, MaxE2EInv)

\* socket s delivers the next frame the relay wrote to its connection, in the
\* order written: a message event
DownlinkWithin(s, maxCallbacks) ==
    /\ socks[s].state = "OPEN"
    /\ socks[s].received < Len(outbox[s])
    /\ Len(cbLog) < maxCallbacks
    /\ SetClientWorld([onmessage(ClientWorld, s, outbox[s][socks[s].received + 1])
                         EXCEPT !.socks[s].received = @ + 1])
    /\ UNCHANGED <<relayVars, mcpVars>>

Downlink(s) == DownlinkWithin(s, MaxE2ECallbacks)

\* the calls of the page in the end-to-end scenario
E2ECalls == { call \in ApiCalls : call.verb \in {"sendRequest", "retry"} }

\* client and relay together; socket s of the client is connection s of the relay
NextEndToEnd ==
    \/ Len(socks) < MaxE2ESockets /\ Connect("ws://localhost:4722")
    \/ \E c \in DOMAIN socks : socks[c].state # "CLOSED" /\ Connection(c)
    \/ \E s \in DOMAIN socks : conn[s] # "new" /\ SocketOpens(s)
    \/ \E s \in DOMAIN socks : SocketCloses(s)
    \/ \E c \in DOMAIN socks : ConnectionCloses(c)
    \/ \E t \in timers : Len(socks) < MaxE2ESockets /\ TimerFires(t)
    \/ \E call \in E2ECalls :
          ApiCallWithin(call, MaxE2ESubmissions, MaxE2ECallbacks, MaxE2EWire)
    \/ Uplink
    \/ \E s \in DOMAIN socks : Downlink(s)
    \/ \E i \in DOMAIN invs : LoadSDKResolves(i)
    \/ \E i \in DOMAIN invs : LoadSDKRejects(i)
    \/ \E i \in DOMAIN invs, r \in RelaySdkResults : QueryResolves(i, r)
    \/ \E i \in DOMAIN invs, e \in RelaySdkErrors : QueryRejects(i, e)

vars == <<providers, sessionStore, conn, outbox, invs, activeSessions, sessionHistory,
          sdk, nMsgs, lastFrame, accepted, lastCalls, lastSent, unhandled,
          ws, url, clientSessionId, reconnectTimer, shouldReconnect, socks, timers,
          connLog, wire, requestHistory, pendingEntry, cbLog, subs, held,
          storedContext, mcpSessionHistory, sessionCounter, mcpReply, lastPosted, readsSince>>

\* the relay process: broker and providers
InitRelay == RelayInit /\ ClientInit /\ McpInit
SpecRelay == InitRelay /\ [][NextRelay]_vars
SpecSession == InitRelay /\ [][NextSession]_vars
SpecConnections == InitRelay /\ [][NextConnections]_vars
SpecDispatch == InitRelay /\ [][NextDispatch]_vars

InitProvider == RelayInit /\ providers = <<"claude-code">> /\ ClientInit /\ McpInit
SpecProvider == InitProvider /\ [][NextProvider]_vars

\* The import of the SDK always settles.  Nothing makes sdk.query() settle: the
\* provider passes it no deadline and starts no timer of its own.
SpecProviderLive == InitProvider /\ [][NextProviderLive]_vars /\ WF_vars(LoadSDKSettles)

InitClient == RelayInit /\ providers = <<>> /\ ClientInit /\ McpInit

\* the browser-side client
SpecClient == InitClient /\ [][NextClient]_vars

\* a pending timer fires: setTimeout runs its callback after RECONNECT_DELAY
TimerEvent == \E t \in TimerIds : TimerFires(t)

\* a socket that is connecting or closing settles: the browser delivers its
\* open event or its close event
SocketSettles ==
    \E s \in 1..MaxSockets :
        /\ s \in DOMAIN socks
        /\ socks[s].state \in {"CONNECTING", "CLOSING"}
        /\ (SocketOpens(s) \/ SocketCloses(s))

\* the client under fair delivery of timer and socket events
SpecClientLive ==
    InitClient /\ [][NextClient]_vars /\ WF_vars(TimerEvent) /\ WF_vars(SocketSettles)

\* the payloads of the shape { content: string[], prompt?: string }
WellFormed(body) == body.parses /\ body.value \in {PromptedPayload, PlainPayload}

\* an HTTP request reaches the MCP server (for a POST: its body has been read)
Http(req) ==
    /\ (req.method = "POST" /\ WellFormed(req.body)) =>
          /\ sessionCounter < MaxPosts
          /\ req.body.value = PlainPayload => sessionCounter < MaxVariedPosts
    /\ SetMcpWorld(httpListener(McpWorld, req))
    /\ IF req.method = "POST" /\ req.url = "/context" /\ WellFormed(req.body)
       THEN lastPosted' = <<req.body.value>> /\ readsSince' = 0
       ELSE UNCHANGED <<lastPosted, readsSince>>
    /\ UNCHANGED <<relayVars, clientVars>>

\* an MCP client calls the tool get_element_context
GetElementContext ==
    /\ SetMcpWorld(get_element_context(McpWorld))
    /\ readsSince' = IF readsSince < 2 THEN readsSince + 1 ELSE 2
    /\ UNCHANGED lastPosted
    /\ UNCHANGED <<relayVars, clientVars>>

NextMcp ==
    \/ \E req \in HttpRequests : Http(req)
    \/ GetElementContext

\* the MCP server in HTTP mode
SpecMcp == InitClient /\ [][NextMcp]_vars

\* the browser-side client connected to the relay process
SpecEndToEnd == InitRelay /\ [][NextEndToEnd]_vars

\* the calls of the page in the follow-up scenario
FollowUpCalls == { call \in ApiCalls : call.verb \in {"sendRequest", "undo", "retry"} }

\* client and relay together on one connection that stays open, the page
\* issuing a request, an undo or a retry when no entry is pending
NextFollowUp ==
    \/ Len(socks) < 1 /\ Connect("ws://localhost:4722")
    \/ \E c \in DOMAIN socks : Connection(c)
    \/ \E s \in DOMAIN socks : conn[s] # "new" /\ SocketOpens(s)
    \/ \E call \in FollowUpCalls :
          /\ pendingEntry = <<>>
          /\ ApiCallWithin(call, MaxFollowUpSubmissions, MaxFollowUpCallbacks, MaxFollowUpWire)
    \/ UplinkWithin(MaxFollowUpWire, MaxFollowUpSubmissions)
    \/ \E s \in DOMAIN socks : DownlinkWithin(s, MaxFollowUpCallbacks)
    \/ \E i \in DOMAIN invs : LoadSDKResolves(i)
    \/ \E i \in DOMAIN invs : LoadSDKRejects(i)
    \/ \E i \in DOMAIN invs, r \in RelaySdkResults : QueryResolves(i, r)
    \/ \E i \in DOMAIN invs, e \in RelaySdkErrors : QueryRejects(i, e)

SpecFollowUp == InitRelay /\ [][NextFollowUp]_vars

\* the page calls getHistory() and keeps the array
GetHistory ==
    /\ Len(held) < MaxHeld
    /\ SetClientWorld([ClientWorld EXCEPT !.held = Append(@, getHistory(ClientWorld))])
    /\ UNCHANGED <<relayVars, mcpVars>>

\* the page mutates an array it got from getHistory()
PageMutates(h) ==
    \E new \in ArrayMutations(ItemsOf(ClientWorld, h)) :
        /\ Len(new) <= MaxHeldLen
        /\ new # ItemsOf(ClientWorld, h)
        /\ SetClientWorld(pageMutates(ClientWorld, h, new))
        /\ UNCHANGED <<relayVars, mcpVars>>

NextClientHistory ==
    \/ Len(socks) < MaxHistorySockets /\ Connect("ws://localhost:4722")
    \/ Disconnect
    \/ \E s \in DOMAIN socks : SocketOpens(s)
    \/ \E s \in DOMAIN socks : SocketCloses(s)
    \/ \E t \in timers : Len(socks) < MaxHistorySockets /\ TimerFires(t)
    \/ \E call \in ApiCalls :
          ApiCallWithin(call, MaxHistorySubmissions, MaxHistoryCallbacks, MaxHistoryWire)
    \/ \E s \in DOMAIN socks : \E done \in BOOLEAN :
          Len(cbLog) < MaxHistoryCallbacks /\ ServerAnswers(s, done)
    \/ GetHistory
    \/ \E h \in DOMAIN held : PageMutates(h)

\* the browser-side client and a page that reads and mutates its history
SpecClientHistory == InitClient /\ [][NextClientHistory]_vars

\* the browser-side client issuing requests to a relay that answers them
SpecClientRequests == InitClient /\ [][NextClientRequests]_vars

\* ===================================================================== claims
Contains(str, token) == \E i \in 1..Len(str) : str[i] = token
Terminal(calls) == SelectSeq(calls, LAMBDA n : n \in {"onDone", "onError"})
ProviderSet == { providers[i] : i \in 1..Len(providers) }

\* C1 (retry routing): whenever the last frame processed is agent-retry(S) and
\* an agent-request for S naming a registered provider was processed before,
\* the broker made exactly one provider call while handling the retry,
\* handleRequest on the provider of the most recent such request, with S and
\* with that request's context, and the invocation it started carries them.
C1_RetryRouting ==
    (lastFrame.msg.type = "agent-retry" /\ MapHas(accepted, lastFrame.msg.sessionId)) =>
        LET S == lastFrame.msg.sessionId
            last == accepted[S]
        IN /\ lastCalls = <<[provider |-> last.agentId, method |-> "handleRequest",
                             sessionId |-> S, context |-> last.context]>>
           /\ invs # <<>>
           /\ invs[Len(invs)].provider = last.agentId
           /\ invs[Len(invs)].sessionId = S
           /\ invs[Len(invs)].context = last.context
           /\ invs[Len(invs)].method = "handleRequest"
           /\ invs[Len(invs)].conn = lastFrame.conn

\* a retry that follows two accepted requests with different contexts
C1_Witness ==
    /\ lastFrame.msg.type = "agent-retry"
    /\ Len(invs) = 3
    /\ invs[1].method = "handleRequest" /\ invs[2].method = "handleRequest"
    /\ invs[1].context # invs[2].context
    /\ invs[3].context = invs[2].context

\* C2 (abort silences in-flight work): an invocation during which abort(S) ran
\* on its provider, at any point before it returned, calls neither onDone nor
\* onError.
C2_AbortSilences ==
    \A i \in DOMAIN invs : invs[i].abortSeen => Terminal(invs[i].calls) = <<>>

\* C3 (at most one terminal callback): no invocation calls onDone and onError
\* together more than once.
C3_AtMostOneTerminal ==
    \A i \in DOMAIN invs : Len(Terminal(invs[i].calls)) <= 1

\* C4 (unknown agent): handling an agent-request whose agentId is not registered
\* writes exactly one frame, to the sender: an agent-error with the request's
\* sessionId whose text names the agentId and every registered provider; it
\* calls no provider method, starts no invocation, and leaves the Session Store
\* and the providers' state unchanged.
C4_UnknownAgent ==
    [][ (nMsgs' = nMsgs + 1 /\ lastFrame'.msg.type = "agent-request"
            /\ lastFrame'.msg.agentId \notin ProviderSet)
        => LET c == lastFrame'.conn
               m == lastFrame'.msg
               f == outbox'[c][Len(outbox'[c])]
           IN /\ outbox'[c] = Append(outbox[c], f)
              /\ f.type = "agent-error"
              /\ f.sessionId = m.sessionId
              /\ Contains(f.error, m.agentId)
              /\ \A p \in ProviderSet : Contains(f.error, p)
              /\ \A d \in Conns \ {c} : outbox'[d] = outbox[d]
              /\ lastCalls' = <<>>
              /\ invs' = invs
              /\ activeSessions' = activeSessions
              /\ sessionHistory' = sessionHistory
              /\ sessionStore' = sessionStore ]_vars

\* an unknown agent is requested on a session that is stored
C4_Witness ==
    /\ lastFrame.msg.type = "agent-request"
    /\ lastFrame.msg.agentId \notin ProviderSet
    /\ MapHas(sessionStore, lastFrame.msg.sessionId)
    /\ providers # <<>>

\* C5 (retry without history): handling an agent-retry for a session that is
\* not stored writes exactly one frame, to the sender: an agent-error with that
\* sessionId; it calls no provider method, starts no invocation and leaves the
\* Session Store unchanged.
C5_RetryWithoutHistory ==
    [][ (nMsgs' = nMsgs + 1 /\ lastFrame'.msg.type = "agent-retry"
            /\ ~MapHas(sessionStore, lastFrame'.msg.sessionId))
        => LET c == lastFrame'.conn
               m == lastFrame'.msg
               f == outbox'[c][Len(outbox'[c])]
           IN /\ outbox'[c] = Append(outbox[c], f)
              /\ f.type = "agent-error"
              /\ f.sessionId = m.sessionId
              /\ \A d \in Conns \ {c} : outbox'[d] = outbox[d]
              /\ lastCalls' = <<>>
              /\ invs' = invs
              /\ sessionStore' = sessionStore ]_vars

\* a retry for a session that is not stored, on a broker with a provider and
\* another session stored
C5_Witness ==
    /\ lastFrame.msg.type = "agent-retry"
    /\ ~MapHas(sessionStore, lastFrame.msg.sessionId)
    /\ sessionStore # EmptyMap
    /\ lastSent # <<>>

\* C6 (Session Store invariant): the sessions in the store are exactly those for
\* which an agent-request naming a registered provider has been processed (a
\* set that only grows).
C6_SessionStoreInvariant == DOMAIN sessionStore = DOMAIN accepted

\* a session is stored, and a follow-up frame for another session was processed
C6_Witness ==
    /\ DOMAIN sessionStore = {"s1"}
    /\ lastFrame.msg.type \in {"agent-undo", "agent-redo", "agent-resume", "agent-retry"}
    /\ lastFrame.msg.sessionId = "s2"

\* C7 (handlers announcement): a connection that has opened has, as the first
\* frame written to it, a handlers message whose agents are exactly the
\* registered provider names; a connection that has not opened has been
\* written nothing.
C7_HandlersFirst ==
    \A c \in Conns :
        IF conn[c] = "new" THEN outbox[c] = <<>>
        ELSE /\ outbox[c] # <<>>
             /\ outbox[c][1].type = "handlers"
             /\ { outbox[c][1].agents[i] : i \in 1..Len(outbox[c][1].agents) }
                    = { <<p>> : p \in ProviderSet }
             /\ Len(outbox[c][1].agents) = Cardinality(ProviderSet)

\* two connections were opened one after the other and both were answered
C7_Witness ==
    /\ conn[1] = "closed" /\ conn[2] = "open"
    /\ Len(outbox[1]) > 1 /\ Len(outbox[2]) > 1
    /\ Len(providers) = 2

\* C8 (abort reaches the in-flight invocation): the latest invocation of a
\* session, started when every earlier invocation of that session had returned
\* or been aborted, and during whose wait for sdk.query() abort(S) ran, has its
\* controller aborted.
C8_AbortReachesInFlight ==
    \A i \in DOMAIN invs :
        (/\ invs[i].alone
         /\ invs[i].abortInQuery
         /\ \A j \in DOMAIN invs :
               (j > i /\ invs[j].provider = invs[i].provider) => invs[j].sessionId # invs[i].sessionId)
        => invs[i].aborted

\* C9 (reconnect idempotence): at most one reconnect timer is pending, and the
\* open event of a socket reports onConnectionChange(true).
C9_ReconnectIdempotence ==
    /\ [](Cardinality(timers) <= 1)
    /\ [][ \A s \in DOMAIN socks :
             (socks[s].state = "CONNECTING" /\ socks'[s].state = "OPEN")
             => connLog' = Append(connLog, TRUE) ]_vars

\* the third socket is open after two forced disconnects, one after an error
C9_Witness ==
    /\ Len(socks) = 3
    /\ socks[1].state = "CLOSED" /\ socks[1].errored
    /\ socks[2].state = "CLOSED" /\ ~socks[2].errored
    /\ socks[3].state = "OPEN"
    /\ connLog = <<TRUE, FALSE, TRUE, FALSE, TRUE>>

\* C10 (disconnect() wins): from disconnect() until the next connect() no
\* reconnect timer is pending, the client holds no socket, and no socket is
\* constructed.
C10_DisconnectWins ==
    /\ [](~shouldReconnect => (timers = {} /\ reconnectTimer = 0 /\ ws = 0))
    /\ [][ (~shouldReconnect /\ ~shouldReconnect') => Len(socks') = Len(socks) ]_vars

\* disconnect() was called while a reconnect was scheduled, and the close event
\* of the socket it closed has been delivered since
C10_Witness ==
    /\ ~shouldReconnect
    /\ Len(socks) = 2
    /\ socks[1].state = "CLOSED" /\ socks[2].state = "CLOSED"
    /\ connLog = <<TRUE, FALSE, FALSE>>

\* a history entry for submission n: its prompt and content with its outcome
EntryOf(n) ==
    { i \in DOMAIN requestHistory :
        /\ requestHistory[i].prompt = subs[n].prompt
        /\ requestHistory[i].content = subs[n].content
        /\ subs[n].outcome \in {requestHistory[i].result, requestHistory[i].error} }

\* a history entry that carries the outcome of submission n under another
\* submission's prompt or content
Mispaired(n) ==
    { i \in DOMAIN requestHistory :
        /\ subs[n].outcome \in {requestHistory[i].result, requestHistory[i].error}
        /\ i \notin EntryOf(n) }

\* C11 (no silently dropped outcome): when submission b was issued before the
\* terminal message of an earlier submission a arrived and both terminal
\* messages have arrived, the history has an entry with a's prompt, content and
\* outcome and one with b's, and no entry pairs the outcome of one with the
\* prompt or content of another.
C11_NoDroppedOutcome ==
    \A b \in DOMAIN subs : \A a \in subs[b].open :
        (subs[a].outcome # <<>> /\ subs[b].outcome # <<>>) =>
            /\ EntryOf(a) # {} /\ EntryOf(b) # {}
            /\ Mispaired(a) = {} /\ Mispaired(b) = {}

\* C12 (client retry with empty history): a retry() called while the history is
\* empty and the socket is open writes no frame, leaves the pending entry as it
\* was, and calls onError once.
C12_RetryEmptyHistory ==
    [][(ApiCall([verb |-> "retry"]) /\ requestHistory = <<>> /\ ~NotConnected(ClientWorld)) =>
          /\ wire' = wire
          /\ pendingEntry' = pendingEntry
          /\ Len(cbLog') = Len(cbLog) + 1
          /\ cbLog'[Len(cbLog')].name = "onError"]_vars

\* the calls that submit work
Submissions == { call \in ApiCalls : call.verb # "abort" }

\* C13 (fail fast while disconnected): a sendRequest, undo, redo, resume or
\* retry called while the client has no socket, or a socket that is not OPEN,
\* calls onError once with the not-connected text, writes no frame, and leaves
\* the pending entry and the history as they were; and a frame other than the
\* health check is only ever written by a call made while the socket is OPEN,
\* so nothing is sent for the failed call after a reconnect.
C13_FailFast ==
    [][/\ \A call \in Submissions :
            (ApiCall(call) /\ (ws = 0 \/ socks[ws].state # "OPEN")) =>
                /\ cbLog' = Append(cbLog, [name |-> "onError", arg |-> NotConnectedError])
                /\ wire' = wire
                /\ pendingEntry' = pendingEntry
                /\ requestHistory' = requestHistory
       /\ \A i \in (DOMAIN wire') \ (DOMAIN wire) :
            wire'[i].frame.type # "health" =>
                /\ ws # 0 /\ socks[ws].state = "OPEN"
                /\ \E call \in ApiCalls : ApiCall(call)]_vars

\* a call failed fast, the client is connected again, and only health checks
\* were written
C13_Witness ==
    /\ \E i \in DOMAIN cbLog : cbLog[i] = [name |-> "onError", arg |-> NotConnectedError]
    /\ Len(socks) = 2 /\ ws = 2 /\ socks[2].state = "OPEN"
    /\ \A i \in DOMAIN wire : wire[i].frame.type = "health"
    /\ Len(wire) = 2

\* the frames that are not a well-formed client message
Malformed == {"unparseable", "other", "null"}

\* C14 (malformed input is dropped): handling a frame whose body is not JSON,
\* or is JSON that is not an object with a known type, writes nothing, calls no
\* provider, starts no invocation, leaves the Session Store unchanged, raises
\* no failure that nothing handles, and leaves the connection open.
C14_MalformedDropped ==
    [][(nMsgs' = nMsgs + 1 /\ lastFrame'.msg.type \in Malformed) =>
          /\ outbox' = outbox
          /\ lastCalls' = <<>>
          /\ invs' = invs
          /\ sessionStore' = sessionStore
          /\ unhandled' = unhandled
          /\ conn' = conn]_vars

\* the invocations of session S that have not returned
Busy(S) == { i \in DOMAIN invs : invs[i].sessionId = S /\ invs[i].pc # "returned" }

NewFrames(d) == SubSeq(outbox'[d], Len(outbox[d]) + 1, Len(outbox'[d]))
CallbackTypes == {"agent-status", "agent-done", "agent-error"}

\* C16 (responses go to the originating socket only): an invocation keeps the
\* connection its request-shaped frame was received on; a step that writes an
\* agent-status, agent-done or agent-error frame to a connection finds that
\* connection open, and is either the handling of a frame received on that
\* connection or a step of an invocation started from that connection; no
\* frame is ever written to a closed connection, and nothing written is removed.
C16_OriginatingSocketOnly ==
    [][/\ \A i \in DOMAIN invs : invs'[i].conn = invs[i].conn
       /\ (nMsgs' = nMsgs + 1 /\ Len(invs') > Len(invs)) =>
             invs'[Len(invs')].conn = lastFrame'.conn
       /\ \A d \in Conns :
            /\ Len(outbox'[d]) >= Len(outbox[d])
            /\ SubSeq(outbox'[d], 1, Len(outbox[d])) = outbox[d]
            /\ conn[d] = "closed" => outbox'[d] = outbox[d]
            /\ (\E n \in DOMAIN NewFrames(d) : NewFrames(d)[n].type \in CallbackTypes) =>
                  /\ conn[d] = "open"
                  /\ IF nMsgs' = nMsgs + 1 THEN lastFrame'.conn = d
                     ELSE \E i \in DOMAIN invs :
                            /\ invs[i].conn = d
                            /\ invs'[i] # invs[i]
                            /\ \A j \in DOMAIN invs : invs'[j] # invs[j] => j = i]_vars

\* an invocation started from connection 1 made a callback after connection 1
\* closed and connection 2 opened: nothing was written for it, to either
C16_Witness ==
    /\ conn[1] = "closed" /\ conn[2] = "open"
    /\ \E i \in DOMAIN invs :
         /\ invs[i].conn = 1
         /\ Terminal(invs[i].calls) # <<>>
         /\ \A n \in DOMAIN outbox[1] : outbox[1][n].type \notin {"agent-done", "agent-error"}
    /\ \A n \in DOMAIN outbox[2] : outbox[2][n].type \notin CallbackTypes

\* C17 (sessionId echo): an invocation keeps the sessionId of the frame that
\* started it, and every agent-status, agent-done and agent-error frame the
\* broker writes carries the sessionId of the frame being handled, when it is
\* written while a frame is handled, and otherwise the sessionId of the one
\* invocation that took the step.
C17_SessionIdEcho ==
    [][/\ \A i \in DOMAIN invs : invs'[i].sessionId = invs[i].sessionId
       /\ (nMsgs' = nMsgs + 1 /\ Len(invs') > Len(invs)) =>
             invs'[Len(invs')].sessionId = lastFrame'.msg.sessionId
       /\ \A d \in Conns : \A n \in DOMAIN NewFrames(d) :
            NewFrames(d)[n].type \in CallbackTypes =>
                IF nMsgs' = nMsgs + 1
                THEN NewFrames(d)[n].sessionId = lastFrame'.msg.sessionId
                ELSE \E i \in DOMAIN invs :
                       /\ invs'[i] # invs[i]
                       /\ \A j \in DOMAIN invs : invs'[j] # invs[j] => j = i
                       /\ NewFrames(d)[n].sessionId = invs[i].sessionId]_vars

\* two sessions were in flight on connection 1 at the same time: a frame of
\* the second invocation's session was written before a frame of the first's
C17_Witness ==
    /\ Len(invs) = 2
    /\ invs[1].sessionId # invs[2].sessionId
    /\ \E a, b \in DOMAIN outbox[1] :
         /\ a < b
         /\ outbox[1][a].type \in CallbackTypes /\ outbox[1][b].type \in CallbackTypes
         /\ outbox[1][a].sessionId = invs[2].sessionId
         /\ outbox[1][b].sessionId = invs[1].sessionId

\* the provider method an agent-undo, agent-redo or agent-resume frame names
FollowUpMethod(type) ==
    CASE type = "agent-undo" -> "undo" [] type = "agent-redo" -> "redo"
      [] type = "agent-resume" -> "resume"

\* C19 (undo/redo/resume routing): whenever the last frame processed is an
\* agent-undo, agent-redo or agent-resume for session S, the broker made, while
\* handling it, exactly one provider call: the corresponding method with S (and,
\* for resume, the frame's prompt) on the provider of the last accepted
\* agent-request for S, or, when there was none, on the first registered
\* provider; it made no call when no provider is registered; and the
\* invocation that call started runs on that provider.
C19_FollowUpRouting ==
    lastFrame.msg.type \in {"agent-undo", "agent-redo", "agent-resume"} =>
        LET m == lastFrame.msg
            S == m.sessionId
            target == IF MapHas(accepted, S) THEN <<accepted[S].agentId>>
                      ELSE IF Len(providers) > 0 THEN <<providers[1]>> ELSE <<>>
            call == [provider |-> target[1], method |-> FollowUpMethod(m.type), sessionId |-> S]
        IN IF target = <<>> THEN lastCalls = <<>>
           ELSE /\ lastCalls = <<IF m.type = "agent-resume"
                                 THEN call @@ [prompt |-> m.prompt] ELSE call>>
                /\ invs # <<>>
                /\ invs[Len(invs)].provider = target[1]
                /\ invs[Len(invs)].method = FollowUpMethod(m.type)
                /\ invs[Len(invs)].sessionId = S
                /\ invs[Len(invs)].conn = lastFrame.conn

\* an undo, redo or resume for a session stored with the second provider was
\* routed to it
C19_Witness ==
    /\ lastFrame.msg.type \in {"agent-undo", "agent-redo", "agent-resume"}
    /\ Len(providers) = 2
    /\ MapHas(accepted, lastFrame.msg.sessionId)
    /\ accepted[lastFrame.msg.sessionId].agentId = providers[2]
    /\ Len(invs) = 2 /\ invs[2].provider = providers[2]

\* C20 (only an accepted agent-request writes the Session Store): a step that
\* is not the handling of an agent-request naming a registered provider leaves
\* the Session Store as it was; so an agent-retry for a stored session
\* dispatches the context of the last accepted agent-request, whatever was
\* handled in between, and an agent-retry that directly follows the same
\* agent-retry makes the same call.
C20_OnlyRequestWrites ==
    [][/\ ~(/\ nMsgs' = nMsgs + 1
            /\ lastFrame'.msg.type = "agent-request"
            /\ lastFrame'.msg.agentId \in ProviderSet) => sessionStore' = sessionStore
       /\ (/\ nMsgs' = nMsgs + 1
           /\ lastFrame'.msg.type = "agent-retry"
           /\ MapHas(accepted, lastFrame'.msg.sessionId)) =>
              /\ Len(lastCalls') = 1
              /\ lastCalls'[1].method = "handleRequest"
              /\ lastCalls'[1].context = accepted[lastFrame'.msg.sessionId].context
              /\ lastCalls'[1].context = sessionStore[lastFrame'.msg.sessionId].lastContext
              /\ (lastFrame.msg = lastFrame'.msg => lastCalls' = lastCalls)]_vars

\* request(s1, ctx), then resume(s1, p), then retry(s1), which dispatched ctx
C20_Witness ==
    /\ Len(invs) = 3
    /\ invs[1].method = "handleRequest" /\ invs[2].method = "resume"
    /\ lastFrame.msg.type = "agent-retry"
    /\ invs[3].method = "handleRequest"
    /\ invs[3].context = invs[1].context
    /\ invs[3].context.prompt # invs[2].context.prompt

\* the frames written to connection 1 that the client has a case for
Dispatched == SelectSeq(outbox[1], LAMBDA f : f.type # "health")
\* the handler calls that message events caused
Received == SelectSeq(cbLog, LAMBDA e : e # [name |-> "onError", arg |-> NotConnectedError])
\* the agent-request frames the client wrote
Requests == SelectSeq(wire, LAMBDA x : x.frame.type = "agent-request")

\* one agent-request was sent on the first connection, neither side closed it,
\* the provider made status callbacks and then onDone and returned, and the
\* client's socket delivered every frame the relay wrote
SingleRequestDone ==
    /\ Len(subs) = 1 /\ Len(Requests) = 1 /\ Requests[1].sock = 1
    /\ Len(invs) = 1 /\ invs[1].pc = "returned"
    /\ Len(invs[1].calls) > 1
    /\ \A n \in 1..(Len(invs[1].calls) - 1) : invs[1].calls[n] = "onStatus"
    /\ invs[1].calls[Len(invs[1].calls)] = "onDone"
    /\ conn[1] = "open" /\ socks[1].state = "OPEN"
    /\ socks[1].received = Len(outbox[1])

\* C18 (end-to-end ordering): after a single agent-request on a fresh connection
\* that the provider answered with status callbacks and then onDone, the
\* relay wrote to the connection, apart from health replies, the handlers
\* frame, then one agent-status frame per status callback, then the agent-done
\* frame; the client's handlers were called for exactly these frames, in this
\* order, with their agents, message and result; and the client's history is
\* the one entry with the request's prompt and content and that result.
C18_EndToEndOrdering ==
    SingleRequestDone =>
        LET n == Len(Dispatched)
        IN /\ n = Len(invs[1].calls) + 1
           /\ Dispatched[1].type = "handlers"
           /\ \A j \in 2..(n - 1) : Dispatched[j].type = "agent-status"
           /\ Dispatched[n].type = "agent-done"
           /\ Len(Received) = n
           /\ Received[1] = [name |-> "onHandlers", arg |-> Dispatched[1].agents]
           /\ \A j \in 2..(n - 1) :
                Received[j] = [name |-> "onStatus", arg |-> Dispatched[j].message]
           /\ Received[n] = [name |-> "onDone", arg |-> Dispatched[n].result]
           /\ requestHistory =
                <<[prompt |-> Requests[1].frame.context.prompt,
                   content |-> Requests[1].frame.context.content,
                   result |-> <<Dispatched[n].result>>, error |-> <<>>]>>

\* the scenario happened with the two status callbacks of the provider
C18_Witness ==
    /\ SingleRequestDone
    /\ Len(invs[1].calls) = 3
    /\ Len(requestHistory) = 1
    /\ Len(Received) = 4

\* C21 (abort broadcast): handling an agent-abort for session S calls abort(S)
\* once on every registered provider, in registration order, and makes no
\* other provider call, whether or not S is stored and whichever provider it
\* is stored with; it writes no frame to any connection, starts no
\* invocation, and leaves the Session Store unchanged.
C21_AbortBroadcast ==
    [][(nMsgs' = nMsgs + 1 /\ lastFrame'.msg.type = "agent-abort") =>
          /\ Len(lastCalls') = Len(providers)
          /\ \A i \in DOMAIN providers :
               lastCalls'[i] = [provider |-> providers[i], method |-> "abort",
                                sessionId |-> lastFrame'.msg.sessionId]
          /\ lastSent' = <<>>
          /\ outbox' = outbox
          /\ Len(invs') = Len(invs)
          /\ sessionStore' = sessionStore]_vars

\* an agent-abort for a session stored with the first of two providers was
\* handled while that session's invocation awaited sdk.query(), and aborted it
C21_Witness ==
    /\ lastFrame.msg.type = "agent-abort"
    /\ Len(providers) = 2 /\ Len(lastCalls) = 2
    /\ MapHas(accepted, lastFrame.msg.sessionId)
    /\ accepted[lastFrame.msg.sessionId].agentId = providers[1]
    /\ Len(invs) = 1 /\ invs[1].aborted

\* C22 (provider abort is idempotent and total): in every reachable state of
\* the provider and for every sessionId, abort(S) is defined; when no
\* controller is registered for S it changes nothing (no provider state, no
\* controller, no callback called, nothing written); and abort(S) applied
\* twice gives the state abort(S) applied once gives.
C22_AbortIdempotent ==
    \A S \in SessionIds :
        LET once == abort(World, "claude-code", S)
        IN /\ abort(once, "claude-code", S) = once
           /\ ~MapHas(activeSessions["claude-code"], S) => once = World
           /\ DOMAIN once.activeSessions["claude-code"] =
                  (DOMAIN activeSessions["claude-code"]) \ {S}

\* abort(s1) cancelled an invocation that awaits sdk.query(); nothing is
\* registered for s1 any more, and another invocation of s1 is still loading
C22_Witness ==
    /\ Len(invs) = 2
    /\ invs[1].sessionId = "s1" /\ invs[1].pc = "query" /\ invs[1].aborted
    /\ invs[2].sessionId = "s1" /\ invs[2].pc = "loadSDK"
    /\ ~MapHas(activeSessions["claude-code"], "s1")

\* C23 (every accepted request is eventually resolved): every invocation
\* eventually has abort(S) run on its provider while it is in flight, or calls
\* onDone or onError.
C23_EventuallyResolved ==
    \A i \in 1..MaxLiveInv :
        [](i \in DOMAIN invs =>
             <>(i \in DOMAIN invs /\ (invs[i].abortSeen \/ Terminal(invs[i].calls) # <<>>)))

\* C24 (callback ordering within one invocation): in the sequence of callbacks
\* an invocation has made, an onDone or onError is the last element: every
\* onStatus comes before it and no callback follows it.
C24_TerminalIsLast ==
    \A i \in DOMAIN invs : \A n \in DOMAIN invs[i].calls :
        invs[i].calls[n] \in {"onDone", "onError"} => n = Len(invs[i].calls)

\* C25 (reconnect liveness): while shouldReconnect is true and the current
\* socket is not open, the current socket is still connecting or the reconnect
\* timer is pending; and under fair timer and socket events a client that is
\* to reconnect to a url it can open eventually reports connected=true, unless
\* it is disconnected, given another url, or has used every socket of the bound.
IsOpen == ws # 0 /\ socks[ws].state = "OPEN"
AttemptPending ==
    \/ ws # 0 /\ socks[ws].state = "CONNECTING"
    \/ reconnectTimer # 0 /\ reconnectTimer \in timers
Reconnecting == shouldReconnect /\ ~ConstructorThrows(url)
C25_ReconnectLiveness ==
    /\ []((shouldReconnect /\ ~IsOpen) => AttemptPending)
    /\ [](Reconnecting =>
            <>(\/ IsOpen /\ connLog # <<>> /\ connLog[Len(connLog)]
               \/ ~Reconnecting
               \/ Len(socks) = MaxSockets))

\* a socket failed or was dropped, the timer fired, and the socket opened by the
\* reconnect is open
C25_Witness ==
    /\ shouldReconnect /\ IsOpen /\ ws > 1 /\ clientSessionId = 1
    /\ Len(socks) < MaxSockets
    /\ \E n \in DOMAIN connLog : ~connLog[n]

\* C26 (stable sessionId): only a call of connect() changes the client's
\* sessionId, and every frame the client writes that has a sessionId carries
\* the one drawn by the latest connect(), which the writing step leaves as it is.
Written == { n \in DOMAIN wire' : n > Len(wire) }
C26_StableSessionId ==
    /\ [][clientSessionId' # clientSessionId =>
             \E u \in Urls : Connect(u) /\ clientSessionId' = clientSessionId + 1]_vars
    /\ [][\A n \in Written :
             "sessionId" \in DOMAIN wire'[n].frame =>
                 /\ wire'[n].frame.sessionId = clientSessionId
                 /\ clientSessionId' = clientSessionId]_vars

\* connect() was called once, the socket was replaced by a reconnect, and a
\* frame written on the second socket carries the session id of that connect()
C26_Witness ==
    /\ clientSessionId = 1
    /\ \E n \in DOMAIN wire :
          /\ wire[n].sock = 2
          /\ "sessionId" \in DOMAIN wire[n].frame
          /\ wire[n].frame.sessionId = 1

\* C27 (history finalization): when agent-done or agent-error arrives, onDone or
\* onError is called once with its value and nothing is pending afterwards; if
\* an entry was pending, the history grows by exactly that entry with the value
\* as its result (agent-done) or its error (agent-error); if none was pending,
\* the history is unchanged.
TerminalArrives == \E s \in DOMAIN socks : \E done \in BOOLEAN : ServerAnswers(s, done)
C27_HistoryFinalization ==
    [][TerminalArrives =>
         LET cb == cbLog'[Len(cbLog')]
         IN /\ cbLog' = Append(cbLog, cb)
            /\ cb.name \in {"onDone", "onError"}
            /\ pendingEntry' = <<>>
            /\ IF pendingEntry # <<>>
               THEN requestHistory' =
                        Append(requestHistory,
                               IF cb.name = "onDone"
                               THEN [pendingEntry[1] EXCEPT !.result = <<cb.arg>>]
                               ELSE [pendingEntry[1] EXCEPT !.error = <<cb.arg>>])
               ELSE requestHistory' = requestHistory]_vars

\* one terminal message found an entry pending and finalized it, another found
\* none pending
C27_Witness ==
    /\ Len(requestHistory) = 1
    /\ requestHistory[1].result # <<>> \/ requestHistory[1].error # <<>>
    /\ Cardinality({ n \in DOMAIN subs : subs[n].outcome # <<>> }) = 2
    /\ pendingEntry = <<>>

\* C28 (history is append-only): across every step of the client and of the
\* page the history before the step is a prefix of the history after it, and a
\* step in which the page mutates an array returned by getHistory() leaves the
\* history as it is.
IsPrefix(a, b) == Len(a) <= Len(b) /\ \A n \in DOMAIN a : a[n] = b[n]
C28_AppendOnly ==
    [][/\ IsPrefix(requestHistory, requestHistory')
       /\ (\E h \in DOMAIN held : PageMutates(h)) => requestHistory' = requestHistory]_vars

\* the history has an entry, and the page changed the array getHistory()
\* returned so that it no longer starts with the history
C28_Witness ==
    /\ requestHistory # <<>>
    /\ held # <<>>
    /\ ~IsPrefix(requestHistory, ItemsOf(ClientWorld, 1))

\* C29 (sessions are connection-agnostic): a step in which a connection opens
\* or closes leaves the Session Store as it is; an agent-retry, undo, redo or
\* resume for a stored session, on whatever connection it arrives, starts an
\* invocation on the stored agentId (for retry with the stored lastContext)
\* whose callbacks are bound to the connection the frame arrived on; and every
\* callback frame an invocation writes afterwards goes to that connection.
FollowUpTypes == {"agent-retry", "agent-undo", "agent-redo", "agent-resume"}
FollowUps == {"undo", "redo", "resume"}
AsRequest(w) ==
    [w EXCEPT !.invs = [j \in DOMAIN w.invs |-> [w.invs[j] EXCEPT !.method = "handleRequest"]]]
PromptsOf(hs, S) == IF MapHas(hs, S) THEN hs[S].prompts ELSE <<>>
C30_SharedExecutionPath ==
    [][/\ Len(invs') > Len(invs) =>
             LET n == invs'[Len(invs')]
             IN /\ n.method \in FollowUps =>
                      n.context.content = <<>> /\ n.context.selectedCount = 0
                /\ AsRequest(World') =
                      handleRequest(AsRequest(World), n.provider, n.sessionId, n.context,
                                    n.conn, n.throwing, "handleRequest")
       /\ \A i \in DOMAIN invs :
             LET inv == invs[i]
                 p == inv.provider
                 S == inv.sessionId
             IN /\ (inv.pc = "loadSDK" /\ invs'[i].pc = "query") =>
                      /\ MapHas(activeSessions'[p], S) /\ activeSessions'[p][S] = i
                      /\ invs'[i].calls = <<"onStatus", "onStatus">>
                      /\ sessionHistory'[p][S].prompts =
                            Append(PromptsOf(sessionHistory[p], S), fullPrompt(inv.context))
                      /\ inv.method \in FollowUps =>
                            fullPrompt(inv.context) = inv.context.prompt
                /\ (/\ DirectAbort(p, S)
                    /\ MapHas(activeSessions[p], S) /\ activeSessions[p][S] = i) =>
                      invs'[i].aborted /\ ~MapHas(activeSessions'[p], S)
                /\ (/\ inv.pc = "query" /\ invs'[i].pc = "returned"
                    /\ ~inv.aborted /\ inv.throwing = "none"
                    /\ Len(sessionHistory'[p][S].results) > Len(sessionHistory[p][S].results)) =>
                      /\ invs'[i].calls = Append(inv.calls, "onDone")
                      /\ ~MapHas(activeSessions'[p], S)
                      /\ Len(sessionHistory'[p][S].results) =
                            Len(sessionHistory[p][S].results) + 1]_vars

\* one undo, redo or resume ran to onDone with its prompt and result saved,
\* another was aborted while it was registered
C30_Witness ==
    /\ \E i \in DOMAIN invs :
          /\ invs[i].method \in FollowUps
          /\ invs[i].pc = "returned"
          /\ invs[i].calls = <<"onStatus", "onStatus", "onDone">>
          /\ MapHas(sessionHistory[invs[i].provider], invs[i].sessionId)
          /\ sessionHistory[invs[i].provider][invs[i].sessionId].results # <<>>
    /\ \E j \in DOMAIN invs :
          invs[j].method \in FollowUps /\ invs[j].aborted /\ invs[j].pc # "loadSDK"

\* C33 (a reconnect never tears down a live connection): in every step in
\* which a reconnect timer fires, the client's current socket is neither open
\* nor connecting; and the close event of a socket that is no longer the
\* current one schedules no reconnect and reports no connected=false.
Live(s) == s # 0 /\ socks[s].state \in {"OPEN", "CONNECTING"}
C33_NoLiveTeardown ==
    [][/\ (\E t \in timers : TimerFires(t)) => ~Live(ws)
       /\ \A s \in DOMAIN socks :
             (SocketCloses(s) /\ s # ws) => (timers' = timers /\ connLog' = connLog)]_vars

\* C36 (history entries are finalized exactly once): every entry of the history
\* has exactly one of result and error set, and the pending entry, when there
\* is one, has neither.
C36_FinalizedOnce ==
    /\ \A n \in DOMAIN requestHistory :
          (requestHistory[n].result # <<>>) # (requestHistory[n].error # <<>>)
    /\ pendingEntry # <<>> =>
          pendingEntry[1].result = <<>> /\ pendingEntry[1].error = <<>>

\* the history holds an entry finalized by agent-done and one finalized by
\* agent-error, or a finalized entry while another entry is pending
C36_Witness ==
    \/ /\ \E n \in DOMAIN requestHistory : requestHistory[n].result # <<>>
       /\ \E n \in DOMAIN requestHistory : requestHistory[n].error # <<>>
    \/ /\ requestHistory # <<>>
       /\ pendingEntry # <<>>

\* C37 (no leaked abort controller): whenever activeSessions holds a controller
\* for session S, the invocation that registered it is an invocation for S that
\* has not returned; so once every invocation for S has returned, activeSessions
\* has no entry for S.
Unreturned(p, S) ==
    { i \in DOMAIN invs :
        invs[i].provider = p /\ invs[i].sessionId = S /\ invs[i].pc # "returned" }
C37_NoLeakedController ==
    \A n \in DOMAIN providers : \A S \in SessionIds :
        LET p == providers[n]
        IN /\ MapHas(activeSessions[p], S) => activeSessions[p][S] \in Unreturned(p, S)
           /\ Unreturned(p, S) = {} => ~MapHas(activeSessions[p], S)

\* two invocations for one session registered a controller and both returned,
\* one through onDone and one through the catch block
C37_Witness ==
    \E S \in SessionIds :
        /\ Len(invs) = 2
        /\ \A i \in DOMAIN invs :
              invs[i].sessionId = S /\ invs[i].pc = "returned" /\ invs[i].calls # <<>>
        /\ \E i \in DOMAIN invs : Contains(invs[i].calls, "onDone")
        /\ \E i \in DOMAIN invs : Contains(invs[i].calls, "onError")
        /\ ~MapHas(activeSessions["claude-code"], S)

\* C38 (provider session memory): for every session the recorded results never
\* outnumber the recorded prompts; an invocation that gets past SDK loading
\* appends exactly one prompt, and nothing else appends one; a result is
\* appended only by an invocation that was not aborted, whose query resolved,
\* and which calls onDone right after.
ResultsOf(hs, S) == IF MapHas(hs, S) THEN hs[S].results ELSE <<>>
C38_SessionMemory ==
    /\ [](\A n \in DOMAIN providers : \A S \in SessionIds :
            Len(ResultsOf(sessionHistory[providers[n]], S))
                <= Len(PromptsOf(sessionHistory[providers[n]], S)))
    /\ [][\A n \in DOMAIN providers : \A S \in SessionIds :
            LET p == providers[n]
                prompts == PromptsOf(sessionHistory[p], S)
                results == ResultsOf(sessionHistory[p], S)
                prompts1 == PromptsOf(sessionHistory'[p], S)
                results1 == ResultsOf(sessionHistory'[p], S)
                passed == { i \in DOMAIN invs :
                              /\ invs[i].provider = p /\ invs[i].sessionId = S
                              /\ invs[i].pc = "loadSDK" /\ invs'[i].pc # "loadSDK"
                              /\ Contains(invs'[i].calls, "onStatus") }
                done == { i \in DOMAIN invs :
                            /\ invs[i].provider = p /\ invs[i].sessionId = S
                            /\ invs[i].pc = "query" /\ invs'[i].pc = "returned"
                            /\ ~invs[i].aborted
                            /\ Len(invs'[i].calls) > Len(invs[i].calls)
                            /\ invs'[i].calls[Len(invs[i].calls) + 1] = "onDone" }
            IN /\ Len(prompts1) = Len(prompts) + Cardinality(passed)
               /\ SubSeq(prompts1, 1, Len(prompts)) = prompts
               /\ Len(results1) = Len(results) + Cardinality(done)
               /\ SubSeq(results1, 1, Len(results)) = results
               /\ Cardinality(passed) <= 1 /\ Cardinality(done) <= 1]_vars

\* C35 (no request-shaped message goes unanswered): handling an agent-request,
\* agent-undo, agent-redo, agent-resume or agent-retry either calls exactly one
\* provider method and writes no error, or calls none and writes exactly one
\* agent-error to the sender.
RequestShaped == {"agent-request", "agent-undo", "agent-redo", "agent-resume", "agent-retry"}
C35_NoneDropped ==
    (nMsgs > 0 /\ lastFrame.msg.type \in RequestShaped) =>
        \/ Len(lastCalls) = 1 /\ lastSent = <<>>
        \/ /\ lastCalls = <<>>
           /\ Len(lastSent) = 1
           /\ lastSent[1].type = "agent-error"
           /\ lastSent[1].sessionId = lastFrame.msg.sessionId

\* C34 (retry is recorded as what was re-sent): when the broker dispatches an
\* agent-retry that the client sent after its earlier submissions completed,
\* the prompt and content of the entry the client keeps for the retry equal
\* the prompt and content of the context the broker hands to the provider.
C34_RetryRecordedAsSent ==
    (/\ nMsgs > 0 /\ nMsgs = Len(wire)
     /\ lastFrame.msg.type = "agent-retry"
     /\ Len(lastCalls) = 1
     /\ pendingEntry # <<>>
     /\ Len(requestHistory) = Len(subs) - 1) =>
        /\ pendingEntry[1].prompt = lastCalls[1].context.prompt
        /\ pendingEntry[1].content = lastCalls[1].context.content

\* C31 (MCP context is read-once): a get_element_context call answers with the
\* context of the most recent well-formed POST /context when no call has read
\* it yet, and with the no-context answer otherwise; GET /health reports
\* hasContext true exactly when such a context has been posted and not read.
Unread == lastPosted # <<>> /\ readsSince = 0
C31_ReadOnce ==
    [][/\ GetElementContext =>
             mcpReply' = [kind |-> "tool",
                          text |-> IF Unread THEN contextText(lastPosted[1])
                                   ELSE NoContextText]
       /\ Http([method |-> "GET", url |-> "/health"]) =>
             /\ mcpReply'.status = 200
             /\ mcpReply'.body.hasContext = Unread]_vars

\* two different contexts were posted and the one call made since then
\* answered with the second
C31_Witness ==
    /\ sessionCounter = 2
    /\ mcpSessionHistory[1].content # mcpSessionHistory[2].content
    /\ readsSince = 1
    /\ mcpReply = [kind |-> "tool", text |-> contextText(lastPosted[1])]
    /\ storedContext = <<>>

\* C32 (MCP session history is bounded): the history never holds more than
\* HistoryLimit entries and their ids increase; a POST /context with a
\* well-formed payload is answered 200 and appends its entry with a new id,
\* dropping the oldest entry when the history is full; a POST with any other
\* body is answered 400 and leaves the history and the stored context as they
\* are; no other step changes the history.
IdsOf(h) == [n \in DOMAIN h |-> h[n].id[2]]
IsPost(req) == req.method = "POST" /\ req.url = "/context"
C32_BoundedHistory ==
    [][/\ Len(mcpSessionHistory') <= HistoryLimit
       /\ \A a, b \in DOMAIN mcpSessionHistory' :
             a < b => IdsOf(mcpSessionHistory')[a] < IdsOf(mcpSessionHistory')[b]
       /\ \A req \in HttpRequests :
           (IsPost(req) /\ Http(req)) =>
              IF WellFormed(req.body)
              THEN LET old == mcpSessionHistory
                       new == mcpSessionHistory'
                       kept == Len(new) - 1
                   IN /\ mcpReply'.status = 200
                      /\ Len(new) = IF Len(old) < HistoryLimit
                                    THEN Len(old) + 1 ELSE HistoryLimit
                      /\ new[Len(new)].content = req.body.value.content
                      /\ new[Len(new)].prompt = req.body.value.prompt
                      /\ SubSeq(new, 1, kept) = SubSeq(old, Len(old) - kept + 1, Len(old))
              ELSE /\ mcpReply'.status = 400
                   /\ mcpSessionHistory' = mcpSessionHistory
                   /\ storedContext' = storedContext
       /\ mcpSessionHistory' # mcpSessionHistory =>
             \E post \in HttpRequests :
                 IsPost(post) /\ WellFormed(post.body) /\ Http(post)]_vars

\* the history is full, its oldest entries were dropped, and a POST that was
\* answered 400 left a stored context in place
C32_Witness ==
    /\ Len(mcpSessionHistory) = HistoryLimit
    /\ mcpSessionHistory[1].id[2] > 1
    /\ mcpReply.kind = "http" /\ mcpReply.status = 400
    /\ storedContext # <<>>

====
